---- MODULE Spec2Model ----
(***************************************************************************)
(* Model of the indexing service's storage engine: the persistent AVL     *)
(* tree (storage/avl/node.rs, storage/avl/mod.rs), the multi-version cell  *)
(* around it (storage/avl/mvcc.rs, storage/avl.rs), the intern pool        *)
(* (intern.rs) and the posting store (storage/avl_storage.rs).             *)
(*                                                                         *)
(* Reference counted nodes (Arc<Node>) live in a heap H: a sequence of     *)
(* node records, an Arc being the index of its node and 0 standing for    *)
(* Option::None.  A node record is [k, v, h, l, r] with l and r Arcs.     *)
(* An Option of a plain value is the empty sequence or a one element      *)
(* sequence.                                                               *)
(***************************************************************************)
EXTENDS Integers, Sequences, FiniteSets, TLC

\* ------------------------------------------------------------------ bounds
MaxKey == 4
MaxVal == 2
MaxCellKey == 2
NumWriters == 2
MaxWrites == 2
MaxPath == 4
NumInterners == 2
MaxFile == 2
MaxTerm == 2
MaxOffset == 0
MaxPostings == 2
MaxDoc == 1
MaxWord == 2
MaxLen == 1
MaxEvents == 1
MaxCalls == 1

MaxQueries == 2

Keys == 1..MaxKey
Vals == 1..MaxVal
CellKeys == 1..MaxCellKey
Writers == 1..NumWriters
Reader == NumWriters + 1
Readers == {Reader}
Paths == 1..MaxPath
Interners == 1..NumInterners
Files == 1..MaxFile
Terms == 1..MaxTerm
Offsets == 0..MaxOffset
PathArgs == 1..(MaxDoc + 1)
LiveFiles == 1..MaxDoc
RawWords == 1..(MaxWord + 1)

\* ------------------------------------------------------------- primitives
None == <<>>
Some(x) == <<x>>
IsSome(o) == Len(o) > 0

MaxOf(a, b) == IF a > b THEN a ELSE b

\* Option<&K> ordering of Rust: None is smaller than every Some.
OptGt(a, b) == IsSome(a) /\ (~IsSome(b) \/ a[1] > b[1])
OptLt(a, b) == IsSome(b) /\ (~IsSome(a) \/ a[1] < b[1])

\* Arc::new: a fresh heap cell holding the node.
Alloc(H, n) == [H |-> Append(H, n), a |-> Len(H) + 1]

\* Option<Node>.map(Arc::new)
AllocOpt(H, o) == IF IsSome(o) THEN Alloc(H, o[1]) ELSE [H |-> H, a |-> 0]

\* The closures handed to upsert and update, as data.
\*   const: |_| v           (Avl::insert)
\*   bump:  next value, starting from 1 when the key is new
\*   cons:  prepend a posting to the list       (AvlStorage::insert)
\*   without: the list without the postings of a path (AvlStorage::purge)
\* FoldWithout that leaves out only the first posting of the path.
FoldWithout_firstOnly(list, id, acc) ==
    LET hits == {i \in 1..Len(list) : list[i].path.id = id}
        f == IF hits = {} THEN Len(list) + 1 ELSE CHOOSE i \in hits : \A j \in hits : i <= j
        rest == [i \in 1..(IF hits = {} THEN Len(list) ELSE Len(list) - 1) |->
                    IF i < f THEN list[i] ELSE list[i + 1]]
    IN [i \in 1..Len(rest) |-> rest[Len(rest) + 1 - i]] \o acc

RECURSIVE FoldWithout(_, _, _)
FoldWithout(list, id, acc) ==
    IF Len(list) = 0 THEN acc
    ELSE FoldWithout(Tail(list), id,
                     IF Head(list).path.id = id THEN acc ELSE <<Head(list)>> \o acc)

Apply(f, old) ==
    CASE f.fn = "const" -> f.v
      [] f.fn = "bump" -> IF IsSome(old) THEN (old[1] % MaxVal) + 1 ELSE 1
      [] f.fn = "cons" -> <<f.entry>> \o (IF IsSome(old) THEN old[1] ELSE <<>>)
      [] f.fn = "without" -> FoldWithout(old[1], f.id, <<>>)

\* ------------------------------------------------------------------ Node
leaf(k, v) == [k |-> k, v |-> v, h |-> 1, l |-> 0, r |-> 0]

height(H, a) == IF a = 0 THEN 0 ELSE H[a].h

balance(H, self) == height(H, self.l) - height(H, self.r)

recompute_height(H, self) ==
    [self EXCEPT !.h = 1 + MaxOf(height(H, self.l), height(H, self.r))]

\* rotate_left whose inner node keeps the height it had before the rotation.
rotate_left_staleInner(H, self) ==
    IF self.r # 0
    THEN LET r == H[self.r]
             inner == Alloc(H, [self EXCEPT !.r = r.l])
         IN [H |-> inner.H,
             n |-> recompute_height(inner.H, [r EXCEPT !.l = inner.a, !.r = r.r])]
    ELSE [H |-> H, n |-> self]

rotate_left(H, self) ==
    IF self.r # 0
    THEN LET r == H[self.r]
             inner == Alloc(H, recompute_height(H, [self EXCEPT !.r = r.l]))
         IN [H |-> inner.H,
             n |-> recompute_height(inner.H, [r EXCEPT !.l = inner.a, !.r = r.r])]
    ELSE [H |-> H, n |-> self]

rotate_right(H, self) ==
    IF self.l # 0
    THEN LET l == H[self.l]
             inner == Alloc(H, recompute_height(H, [self EXCEPT !.l = l.r]))
         IN [H |-> inner.H,
             n |-> recompute_height(inner.H, [l EXCEPT !.r = inner.a, !.l = l.l])]
    ELSE [H |-> H, n |-> self]

\* self.l.as_ref().map(|l| l.rotate_left()).map(Arc::new)
RotatedChild(H, a, left) ==
    IF a = 0 THEN [H |-> H, a |-> 0]
    ELSE LET rot == IF left THEN rotate_left(H, H[a]) ELSE rotate_right(H, H[a])
         IN Alloc(rot.H, rot.n)

rebalance_insert(H, self) ==
    LET b == balance(H, self)
        l_key == IF self.l # 0 THEN Some(H[self.l].k) ELSE None
        r_key == IF self.r # 0 THEN Some(H[self.r].k) ELSE None
    IN IF b > 1 /\ OptGt(Some(self.k), l_key) THEN rotate_right(H, self)
       ELSE IF b < -1 /\ OptLt(Some(self.k), r_key) THEN rotate_left(H, self)
       ELSE IF b > 1 /\ OptGt(Some(self.k), l_key)
            THEN LET c == RotatedChild(H, self.l, TRUE)
                 IN rotate_right(c.H, recompute_height(c.H, [self EXCEPT !.l = c.a]))
       ELSE IF b < -1 /\ OptLt(Some(self.k), r_key)
            THEN LET c == RotatedChild(H, self.r, FALSE)
                 IN rotate_left(c.H, recompute_height(c.H, [self EXCEPT !.r = c.a]))
       ELSE [H |-> H, n |-> self]

\* rebalance_remove that always takes the single rotation.
rebalance_remove_single(H, self) ==
    LET b == balance(H, self)
    IN IF b > 1 THEN rotate_right(H, self)
       ELSE IF b < -1 THEN rotate_left(H, self)
       ELSE [H |-> H, n |-> self]

rebalance_remove(H, self) ==
    LET b == balance(H, self)
        l_balance == IF self.l # 0 THEN balance(H, H[self.l]) ELSE 0
        r_balance == IF self.r # 0 THEN balance(H, H[self.r]) ELSE 0
    IN IF b > 1 /\ l_balance >= 0 THEN rotate_right(H, self)
       ELSE IF b > 1 /\ l_balance < 0
            THEN LET c == RotatedChild(H, self.l, TRUE)
                 IN rotate_right(c.H, recompute_height(c.H, [self EXCEPT !.l = c.a]))
       ELSE IF b < -1 /\ r_balance <= 0 THEN rotate_left(H, self)
       ELSE IF b < -1 /\ r_balance > 0
            THEN LET c == RotatedChild(H, self.r, FALSE)
                 IN rotate_left(c.H, recompute_height(c.H, [self EXCEPT !.r = c.a]))
       ELSE [H |-> H, n |-> self]

\* Node_max that stops at the root of the subtree.
Node_max_root(H, self) == self

RECURSIVE Node_max(_, _)
Node_max(H, self) == IF self.r # 0 THEN Node_max(H, H[self.r]) ELSE self

\* The arguments Node::upsert calls f with, in order: f(None) for the leaf of
\* a new key, f(Some(&self.v)) at the node that holds the key.
RECURSIVE Node_upsert_calls(_, _, _)
Node_upsert_calls(H, self, k) ==
    IF k < self.k THEN (IF self.l # 0 THEN Node_upsert_calls(H, H[self.l], k) ELSE <<None>>)
    ELSE IF k > self.k
    THEN (IF self.r # 0 THEN Node_upsert_calls(H, H[self.r], k) ELSE <<None>>)
    ELSE <<Some(self.v)>>

\* Node_upsert that leaves the value of a key the tree holds as it is.
RECURSIVE Node_upsert_keepOld(_, _, _, _)
Node_upsert_keepOld(H, self, k, f) ==
    IF k < self.k
    THEN LET l == IF self.l # 0 THEN Node_upsert_keepOld(H, H[self.l], k, f)
                  ELSE [H |-> H, n |-> leaf(k, Apply(f, None))]
             al == Alloc(l.H, l.n)
         IN rebalance_insert(al.H, recompute_height(al.H, [self EXCEPT !.l = al.a]))
    ELSE IF k > self.k
    THEN LET r == IF self.r # 0 THEN Node_upsert_keepOld(H, H[self.r], k, f)
                  ELSE [H |-> H, n |-> leaf(k, Apply(f, None))]
             al == Alloc(r.H, r.n)
         IN rebalance_insert(al.H, recompute_height(al.H, [self EXCEPT !.r = al.a]))
    ELSE [H |-> H, n |-> self]

RECURSIVE Node_upsert(_, _, _, _)
Node_upsert(H, self, k, f) ==
    IF k < self.k
    THEN LET l == IF self.l # 0 THEN Node_upsert(H, H[self.l], k, f)
                  ELSE [H |-> H, n |-> leaf(k, Apply(f, None))]
             al == Alloc(l.H, l.n)
         IN rebalance_insert(al.H, recompute_height(al.H, [self EXCEPT !.l = al.a]))
    ELSE IF k > self.k
    THEN LET r == IF self.r # 0 THEN Node_upsert(H, H[self.r], k, f)
                  ELSE [H |-> H, n |-> leaf(k, Apply(f, None))]
             al == Alloc(r.H, r.n)
         IN rebalance_insert(al.H, recompute_height(al.H, [self EXCEPT !.r = al.a]))
    ELSE [H |-> H, n |-> [self EXCEPT !.k = k, !.v = Apply(f, Some(self.v))]]

\* Node_update that applies f to the node at which the search for an
\* absent key ends.
RECURSIVE Node_update_lastNode(_, _, _, _)
Node_update_lastNode(H, self, k, f) ==
    IF k < self.k /\ self.l # 0
    THEN LET l == Node_update_lastNode(H, H[self.l], k, f)
             al == AllocOpt(l.H, l.o)
         IN [H |-> al.H, o |-> Some([self EXCEPT !.l = al.a])]
    ELSE IF k > self.k /\ self.r # 0
    THEN LET r == Node_update_lastNode(H, H[self.r], k, f)
             al == AllocOpt(r.H, r.o)
         IN [H |-> al.H, o |-> Some([self EXCEPT !.r = al.a])]
    ELSE [H |-> H, o |-> Some([self EXCEPT !.v = Apply(f, Some(self.v))])]

RECURSIVE Node_update(_, _, _, _)
Node_update(H, self, k, f) ==
    IF k < self.k
    THEN LET l == IF self.l # 0 THEN Node_update(H, H[self.l], k, f)
                  ELSE [H |-> H, o |-> None]
             al == AllocOpt(l.H, l.o)
         IN [H |-> al.H, o |-> Some([self EXCEPT !.l = al.a])]
    ELSE IF k > self.k
    THEN LET r == IF self.r # 0 THEN Node_update(H, H[self.r], k, f)
                  ELSE [H |-> H, o |-> None]
             al == AllocOpt(r.H, r.o)
         IN [H |-> al.H, o |-> Some([self EXCEPT !.r = al.a])]
    ELSE [H |-> H, o |-> Some([self EXCEPT !.v = Apply(f, Some(self.v))])]

\* The arguments Node::update calls f with, in order: f is passed down the
\* side the key is on and called at the node that holds the key.
RECURSIVE Node_update_calls(_, _, _)
Node_update_calls(H, self, k) ==
    IF k < self.k THEN (IF self.l # 0 THEN Node_update_calls(H, H[self.l], k) ELSE <<>>)
    ELSE IF k > self.k
    THEN (IF self.r # 0 THEN Node_update_calls(H, H[self.r], k) ELSE <<>>)
    ELSE <<Some(self.v)>>

RECURSIVE Node_remove(_, _, _)
Node_remove(H, self, k) ==
    IF k < self.k
    THEN LET l == IF self.l # 0 THEN Node_remove(H, H[self.l], k)
                  ELSE [H |-> H, o |-> None]
             al == AllocOpt(l.H, l.o)
             res == rebalance_remove(al.H, recompute_height(al.H, [self EXCEPT !.l = al.a]))
         IN [H |-> res.H, o |-> Some(res.n)]
    ELSE IF k > self.k
    THEN LET r == IF self.r # 0 THEN Node_remove(H, H[self.r], k)
                  ELSE [H |-> H, o |-> None]
             al == AllocOpt(r.H, r.o)
             res == rebalance_remove(al.H, recompute_height(al.H, [self EXCEPT !.r = al.a]))
         IN [H |-> res.H, o |-> Some(res.n)]
    ELSE IF self.l = 0 /\ self.r = 0 THEN [H |-> H, o |-> None]
    ELSE IF self.l = 0 THEN [H |-> H, o |-> Some(H[self.r])]
    ELSE IF self.r = 0 THEN [H |-> H, o |-> Some(H[self.l])]
    ELSE LET m == Node_max(H, H[self.l])
             l == Node_remove(H, H[self.l], m.k)
             al == AllocOpt(l.H, l.o)
             res == rebalance_remove(al.H,
                        recompute_height(al.H, [m EXCEPT !.l = al.a, !.r = self.r]))
         IN [H |-> res.H, o |-> Some(res.n)]

\* Node_get descending to the left for a larger key as well.
RECURSIVE Node_get_alwaysLeft(_, _, _)
Node_get_alwaysLeft(H, a, k) ==
    IF k < H[a].k THEN (IF H[a].l # 0 THEN Node_get_alwaysLeft(H, H[a].l, k) ELSE 0)
    ELSE IF k > H[a].k THEN (IF H[a].l # 0 THEN Node_get_alwaysLeft(H, H[a].l, k) ELSE 0)
    ELSE a

\* The Arc of the node holding k below a, or 0.
RECURSIVE Node_get(_, _, _)
Node_get(H, a, k) ==
    IF k < H[a].k THEN (IF H[a].l # 0 THEN Node_get(H, H[a].l, k) ELSE 0)
    ELSE IF k > H[a].k THEN (IF H[a].r # 0 THEN Node_get(H, H[a].r, k) ELSE 0)
    ELSE a

\* ------------------------------------------------------------------- Avl
\* The immutable tree: a root Arc (0 when empty).  Every operation returns
\* the heap it allocated in and the root of the new tree.
\* Avl_upsert overwriting the value in the root node when k is its key,
\* instead of building a new node.
Avl_upsert_inPlace(H, a, k, f) ==
    IF a # 0 /\ H[a].k = k
    THEN [H |-> [H EXCEPT ![a].v = Apply(f, Some(H[a].v))], a |-> a]
    ELSE IF a # 0
    THEN LET res == Node_upsert(H, H[a], k, f) IN Alloc(res.H, res.n)
    ELSE Alloc(H, leaf(k, Apply(f, None)))

Avl_upsert(H, root, k, f) ==
    IF root # 0
    THEN LET res == Node_upsert(H, H[root], k, f) IN Alloc(res.H, res.n)
    ELSE Alloc(H, leaf(k, Apply(f, None)))

\* The arguments Avl::upsert calls f with.
Avl_upsert_calls(H, root, k) ==
    IF root # 0 THEN Node_upsert_calls(H, H[root], k) ELSE <<None>>

\* node.upsert(k, |_| v), or Node::leaf(k, v) for the empty tree
Avl_insert(H, root, k, v) ==
    IF root # 0
    THEN LET res == Node_upsert(H, H[root], k, [fn |-> "const", v |-> v])
         IN Alloc(res.H, res.n)
    ELSE Alloc(H, leaf(k, v))

Avl_update(H, root, k, f) ==
    IF root # 0
    THEN LET res == Node_update(H, H[root], k, f) IN AllocOpt(res.H, res.o)
    ELSE [H |-> H, a |-> 0]

\* The arguments Avl::update calls f with.
Avl_update_calls(H, root, k) ==
    IF root # 0 THEN Node_update_calls(H, H[root], k) ELSE <<>>

Avl_remove(H, root, k) ==
    IF root # 0
    THEN LET res == Node_remove(H, H[root], k) IN AllocOpt(res.H, res.o)
    ELSE [H |-> H, a |-> 0]

\* Option<ValueRef>: the value stored under k.
Avl_get(H, root, k) ==
    IF root = 0 THEN None
    ELSE LET a == Node_get(H, root, k) IN IF a = 0 THEN None ELSE Some(H[a].v)

\* ------------------------------------------------------------------ Iter
\* next_stack is a sequence of node Arcs, its top the last element.
RECURSIVE traverse_left(_, _, _)
traverse_left(H, next_stack, node) ==
    IF node # 0 THEN traverse_left(H, Append(next_stack, node), H[node].l)
    ELSE next_stack

Iter_new(H, root) == traverse_left(H, <<>>, root)

\* Iter_next pushing the right child without diving to its left-most node.
Iter_next_noDive(H, next_stack) ==
    IF Len(next_stack) > 0
    THEN LET node == next_stack[Len(next_stack)]
             popped == SubSeq(next_stack, 1, Len(next_stack) - 1)
         IN [stack |-> IF H[node].r # 0 THEN Append(popped, H[node].r) ELSE popped,
             item |-> Some(<<H[node].k, H[node].v>>)]
    ELSE [stack |-> next_stack, item |-> None]

\* One call of Iterator::next: the stack afterwards and the item.
Iter_next(H, next_stack) ==
    IF Len(next_stack) > 0
    THEN LET node == next_stack[Len(next_stack)]
             popped == SubSeq(next_stack, 1, Len(next_stack) - 1)
         IN [stack |-> IF H[node].r # 0 THEN traverse_left(H, popped, H[node].r)
                       ELSE popped,
             item |-> Some(<<H[node].k, H[node].v>>)]
    ELSE [stack |-> next_stack, item |-> None]

\* The items next() yields until it first returns None.
RECURSIVE Iter_collect(_, _)
Iter_collect(H, next_stack) ==
    LET nx == Iter_next(H, next_stack)
    IN IF IsSome(nx.item) THEN <<nx.item[1]>> \o Iter_collect(H, nx.stack) ELSE <<>>

Avl_iter(H, root) == Iter_collect(H, Iter_new(H, root))

\* The stack after n calls of next().
RECURSIVE Iter_after(_, _, _)
Iter_after(H, next_stack, n) ==
    IF n = 0 THEN next_stack ELSE Iter_after(H, Iter_next(H, next_stack).stack, n - 1)

\* ----------------------------------------------- trees as plain values
\* A tree without its addresses: <<>> or <<[k, v, h, l, r]>> with l and r
\* trees.  Dropping every other Arc leaves exactly the nodes of the tree.
RECURSIVE Tree(_, _)
Tree(H, a) ==
    IF a = 0 THEN <<>>
    ELSE <<[k |-> H[a].k, v |-> H[a].v, h |-> H[a].h,
            l |-> Tree(H, H[a].l), r |-> Tree(H, H[a].r)]>>

RECURSIVE LoadInto(_, _)
LoadInto(H, t) ==
    IF Len(t) = 0 THEN [H |-> H, a |-> 0]
    ELSE LET L == LoadInto(H, t[1].l)
             R == LoadInto(L.H, t[1].r)
         IN Alloc(R.H, [k |-> t[1].k, v |-> t[1].v, h |-> t[1].h, l |-> L.a, r |-> R.a])

Load(t) == LoadInto(<<>>, t)

TInsert(t, k, v) == LET ld == Load(t) res == Avl_insert(ld.H, ld.a, k, v) IN Tree(res.H, res.a)
TUpsertCalls(t, k) == LET ld == Load(t) IN Avl_upsert_calls(ld.H, ld.a, k)
TUpsert(t, k, f) == LET ld == Load(t) res == Avl_upsert(ld.H, ld.a, k, f) IN Tree(res.H, res.a)
TUpdate(t, k, f) == LET ld == Load(t) res == Avl_update(ld.H, ld.a, k, f) IN Tree(res.H, res.a)
TRemove(t, k) == LET ld == Load(t) res == Avl_remove(ld.H, ld.a, k) IN Tree(res.H, res.a)
TGet(t, k) == LET ld == Load(t) IN Avl_get(ld.H, ld.a, k)
TUpdateCalls(t, k) == LET ld == Load(t) IN Avl_update_calls(ld.H, ld.a, k)
TIter(t) == LET ld == Load(t) IN Avl_iter(ld.H, ld.a)

RECURSIVE TrueHeight(_)
TrueHeight(t) ==
    IF Len(t) = 0 THEN 0 ELSE 1 + MaxOf(TrueHeight(t[1].l), TrueHeight(t[1].r))

RECURSIVE TreeKeys(_)
TreeKeys(t) ==
    IF Len(t) = 0 THEN {} ELSE {t[1].k} \cup TreeKeys(t[1].l) \cup TreeKeys(t[1].r)

RECURSIVE Balanced(_)
Balanced(t) ==
    \/ Len(t) = 0
    \/ /\ TrueHeight(t[1].l) - TrueHeight(t[1].r) \in {-1, 0, 1}
       /\ Balanced(t[1].l)
       /\ Balanced(t[1].r)

\* The keys of S in ascending order.
RECURSIVE SortedSeq(_)
SortedSeq(S) ==
    IF S = {} THEN <<>>
    ELSE LET m == CHOOSE x \in S : \A y \in S : x <= y
         IN <<m>> \o SortedSeq(S \ {m})

\* ----------------------------------------------------------------- state
VARIABLES
    map,        \* Ordered Map: the tree of the Avl value the caller holds
    model,      \* what the map should hold: key -> Option of a value
    lastOp,     \* the last operation applied to map
    heap,       \* Snapshot Cell: the nodes behind every Arc<Node>
    root,       \* MvccAvl.root: the Arc inside the RwLock (0 for an empty Avl)
    rwWriter,   \* the thread holding the write guard of root, or 0
    rwReaders,  \* the threads holding a read guard of root
    write_lock, \* MvccAvl.write_lock: the thread holding the mutex, or 0
    pc,         \* where every thread is in its call
    call,       \* the write call a writer is executing
    local,      \* a writer's snapshot, then its new_root
    retained,   \* the snapshot a reader holds: Option of a root Arc
    seen,       \* what a reader's snapshot showed when it was taken
    log,        \* the writes installed so far, in order
    nWrites,    \* write calls started
    nReturned,  \* write calls that have returned
    values,     \* InternPool.values: the tree value -> Arc<T> behind its root
    nextId,     \* the address the next Arc::new(value) gets
    ipc,        \* where every interning thread is in intern()
    iarg,       \* the value a thread is interning
    interned,   \* the Arc a thread made for its value
    handed,     \* every InternRef intern() has returned so far
    lastHit,    \* the InternRef the last call that found its value returned
    avl,        \* AvlStorage.avl: the tree term -> list of IndexEntry
    tokens,     \* the tokens inserted and not purged since: (path, term, offset)
    token_normalisers, \* Indexer.token_normalisers: the configured chain
    events,     \* the channel from the file watcher: DebouncedEvents not yet received
    nevents,    \* events the file watcher has sent so far
    indexing_queue, \* the channel to the indexing worker: actions not yet received
    sent,       \* actions sent on indexing_queue so far
    wpending,   \* the sends the watching worker has left for the event it received
    current,    \* the action the indexing worker is executing: Option of an action
    processed,  \* actions the indexing worker has finished
    todo,       \* per thread: the index_file / clear_from_index calls it has left
    prims,      \* per thread: the store updates the call it is in has left
    ncalls,     \* calls of watch, unwatch and query made so far
    qres,       \* what the last query returned: Option of a record
    disk,       \* what is on disk: the state of every path under Dir
    arm_result, \* the Result r of the match arm the indexing worker is in
    warned,     \* the actions for which the worker logged "indexing error"
    watched,    \* the paths registered with the watcher
    returns,    \* the calls of watch and unwatch that have returned, in order
    held,       \* the entries the querying thread got and has not yet read: Option
    qlog,       \* what the queries of the querying thread returned, in order
    hist,       \* the sets of paths the index has held for the term queried
    alive,      \* which of the LiveIndexer handle and the two workers still exist
    repl        \* main: "prompt" while the loop reads commands, then how it ended

mapVars == <<map, model, lastOp>>

cellVars == <<heap, root, rwWriter, rwReaders, write_lock, pc, call, local,
              retained, seen, log, nWrites, nReturned>>

internVars == <<values, nextId, ipc, iarg, interned, handed, lastHit>>

storeVars == <<avl, tokens>>

indexerVars == <<token_normalisers>>

liveVars == <<events, nevents, indexing_queue, sent, wpending, current, processed,
              todo, prims, ncalls, qres>>

readerVars == <<held, qlog, hist>>

envVars == <<disk, arm_result, warned, watched, returns, held, qlog, hist, alive, repl>>

vars == <<map, model, lastOp, heap, root, rwWriter, rwReaders, write_lock, pc,
          call, local, retained, seen, log, nWrites, nReturned,
          values, nextId, ipc, iarg, interned, handed, lastHit,
          avl, tokens, token_normalisers,
          events, nevents, indexing_queue, sent, wpending, current, processed,
          todo, prims, ncalls, qres,
          disk, arm_result, warned, watched, returns, held, qlog, hist, alive, repl>>

\* ------------------------------------------------------- the Ordered Map
InitMap ==
    /\ map = <<>>
    /\ model = [k \in Keys |-> None]
    /\ lastOp = [op |-> "new", k |-> 0, old |-> None]

MapInsert(k, v) ==
    /\ map' = TInsert(map, k, v)
    /\ model' = [model EXCEPT ![k] = Some(v)]
    /\ lastOp' = [op |-> "insert", k |-> k, old |-> model[k]]
    /\ UNCHANGED <<cellVars, internVars, storeVars, indexerVars, liveVars, envVars>>

MapUpsert(k) ==
    /\ map' = TUpsert(map, k, [fn |-> "bump"])
    /\ model' = [model EXCEPT ![k] = Some(Apply([fn |-> "bump"], model[k]))]
    /\ lastOp' = [op |-> "upsert", k |-> k, old |-> model[k]]
    /\ UNCHANGED <<cellVars, internVars, storeVars, indexerVars, liveVars, envVars>>

MapUpdate(k) ==
    /\ map' = TUpdate(map, k, [fn |-> "bump"])
    /\ model' = [model EXCEPT ![k] = IF IsSome(model[k])
                                     THEN Some(Apply([fn |-> "bump"], model[k]))
                                     ELSE None]
    /\ lastOp' = [op |-> "update", k |-> k, old |-> model[k]]
    /\ UNCHANGED <<cellVars, internVars, storeVars, indexerVars, liveVars, envVars>>

MapRemove(k) ==
    /\ map' = TRemove(map, k)
    /\ model' = [model EXCEPT ![k] = None]
    /\ lastOp' = [op |-> "remove", k |-> k, old |-> model[k]]
    /\ UNCHANGED <<cellVars, internVars, storeVars, indexerVars, liveVars, envVars>>

NextMap ==
    \/ \E k \in Keys, v \in Vals : MapInsert(k, v)
    \/ \E k \in Keys : MapUpsert(k)
    \/ \E k \in Keys : MapUpdate(k)
    \/ \E k \in Keys : MapRemove(k)

\* The operations with closures that return the same value for every key,
\* so that the states differ in the keys and the shape of the tree only.
ShapeUpsert(k) ==
    /\ map' = TUpsert(map, k, [fn |-> "const", v |-> 1])
    /\ model' = [model EXCEPT ![k] = Some(1)]
    /\ lastOp' = [op |-> "upsert", k |-> k, old |-> model[k]]
    /\ UNCHANGED <<cellVars, internVars, storeVars, indexerVars, liveVars, envVars>>

ShapeUpdate(k) ==
    /\ map' = TUpdate(map, k, [fn |-> "const", v |-> 1])
    /\ model' = [model EXCEPT ![k] = IF IsSome(model[k]) THEN Some(1) ELSE None]
    /\ lastOp' = [op |-> "update", k |-> k, old |-> model[k]]
    /\ UNCHANGED <<cellVars, internVars, storeVars, indexerVars, liveVars, envVars>>

NextShape ==
    \/ \E k \in Keys, v \in {1} : MapInsert(k, v)
    \/ \E k \in Keys : ShapeUpsert(k)
    \/ \E k \in Keys : ShapeUpdate(k)
    \/ \E k \in Keys : MapRemove(k)

\* The maps with the keys S and the values val whose nodes all have subtree
\* heights that differ by at most 1, with the height every node stores.
\* Inserting the keys of such a map level by level builds it without a
\* rotation, so each of them is a map the program can hold.
RECURSIVE Shapes(_, _)
Shapes(S, val) ==
    IF S = {} THEN {<<>>}
    ELSE UNION {UNION {{<<[k |-> k, v |-> val[k],
                           h |-> 1 + MaxOf(TrueHeight(l), TrueHeight(r)),
                           l |-> l, r |-> r]>> :
                            r \in {t \in Shapes({x \in S : x > k}, val) :
                                      TrueHeight(l) - TrueHeight(t) \in {-1, 0, 1}}} :
                       l \in Shapes({x \in S : x < k}, val)} :
                k \in S}

BalancedMaps == UNION {Shapes(S, val) : S \in SUBSET Keys, val \in [Keys -> Vals]}

\* An Avl value whose nodes are all balanced
InitBalanced ==
    /\ map \in BalancedMaps
    /\ model = [k \in Keys |-> TGet(map, k)]
    /\ lastOp = [op |-> "new", k |-> 0, old |-> None]

\* One call on that value.
OnceInsert(k, v) == lastOp.op = "new" /\ MapInsert(k, v)

OnceUpsert(k) == lastOp.op = "new" /\ MapUpsert(k)

OnceUpdate(k) == lastOp.op = "new" /\ MapUpdate(k)

OnceRemove(k) == lastOp.op = "new" /\ MapRemove(k)

NextOnce ==
    \/ \E k \in Keys, v \in Vals : OnceInsert(k, v)
    \/ \E k \in Keys : OnceUpsert(k)
    \/ \E k \in Keys : OnceUpdate(k)
    \/ \E k \in Keys : OnceRemove(k)

\* ----------------------------------------------------- the Snapshot Cell
\* MvccAvl: writers 1..NumWriters call insert/upsert/update/remove, the
\* readers call snapshot() and keep what it returned.
NoCall == [op |-> "none", k |-> 0]

WriteCalls ==
    {[op |-> o, k |-> k] : o \in {"insert", "upsert", "update", "remove"}, k \in CellKeys}

\* The documented effect of a write on the contents: key -> Option of a value.
ApplyCall(m, c) ==
    CASE c.op = "insert" -> [m EXCEPT ![c.k] = Some(1)]
      [] c.op = "upsert" -> [m EXCEPT ![c.k] = Some(Apply([fn |-> "bump"], m[c.k]))]
      [] c.op = "update" -> [m EXCEPT ![c.k] = IF IsSome(m[c.k])
                                               THEN Some(Apply([fn |-> "bump"], m[c.k]))
                                               ELSE None]
      [] c.op = "remove" -> [m EXCEPT ![c.k] = None]

RECURSIVE ApplyLog(_, _)
ApplyLog(m, calls) ==
    IF Len(calls) = 0 THEN m ELSE ApplyLog(ApplyCall(m, Head(calls)), Tail(calls))

EmptyContents == [k \in CellKeys |-> None]

\* What get shows of the tree at Arc a.
Contents(H, a) == [k \in CellKeys |-> Avl_get(H, a, k)]

\* self.snapshot().<op>(..): the new tree of a write call.
NewRoot(H, snapshot, c) ==
    CASE c.op = "insert" -> Avl_insert(H, snapshot, c.k, 1)
      [] c.op = "upsert" -> Avl_upsert(H, snapshot, c.k, [fn |-> "bump"])
      [] c.op = "update" -> Avl_update(H, snapshot, c.k, [fn |-> "bump"])
      [] c.op = "remove" -> Avl_remove(H, snapshot, c.k)

InitCell ==
    /\ heap = <<>>
    /\ root = 0
    /\ rwWriter = 0
    /\ rwReaders = {}
    /\ write_lock = 0
    /\ pc = [t \in Writers \cup Readers |-> "idle"]
    /\ call = [w \in Writers |-> NoCall]
    /\ local = [w \in Writers |-> 0]
    /\ retained = [r \in Readers |-> None]
    /\ seen = [r \in Readers |-> [items |-> <<>>, gets |-> EmptyContents, log |-> 0,
                                  returned |-> 0]]
    /\ log = <<>>
    /\ nWrites = 0
    /\ nReturned = 0

\* W_Lock with the guard dropped at once (let _ = ...): no mutual exclusion.
W_Lock_noMutex(w, c) ==
    /\ pc[w] = "idle"
    /\ nWrites < MaxWrites
    /\ write_lock' = w
    /\ call' = [call EXCEPT ![w] = c]
    /\ nWrites' = nWrites + 1
    /\ pc' = [pc EXCEPT ![w] = "snapshot"]
    /\ UNCHANGED <<mapVars, internVars, storeVars, indexerVars, liveVars, envVars>>
    /\ UNCHANGED <<heap, root, rwWriter, rwReaders, local, retained, seen, log, nReturned>>

\* W_Lock taking the write side of root for the whole call instead of a
\* separate mutex.
W_Lock_rootWrite(w, c) ==
    /\ pc[w] = "idle"
    /\ nWrites < MaxWrites
    /\ rwWriter = 0
    /\ rwReaders = {}
    /\ rwWriter' = w
    /\ write_lock' = w
    /\ call' = [call EXCEPT ![w] = c]
    /\ nWrites' = nWrites + 1
    /\ pc' = [pc EXCEPT ![w] = "compute"]
    /\ UNCHANGED <<mapVars, internVars, storeVars, indexerVars, liveVars, envVars>>
    /\ UNCHANGED <<heap, root, rwReaders, local, retained, seen, log, nReturned>>

\* let _write_lock = self.write_lock.lock();
W_Lock(w, c) ==
    /\ pc[w] = "idle"
    /\ nWrites < MaxWrites
    /\ write_lock = 0
    /\ write_lock' = w
    /\ call' = [call EXCEPT ![w] = c]
    /\ nWrites' = nWrites + 1
    /\ pc' = [pc EXCEPT ![w] = "snapshot"]
    /\ UNCHANGED <<mapVars, internVars, storeVars, indexerVars, liveVars, envVars>>
    /\ UNCHANGED <<heap, root, rwWriter, rwReaders, local, retained, seen, log, nReturned>>

\* self.snapshot(): self.root.read().unwrap().clone(), the read guard taken
\* and dropped within the statement
W_Snapshot(w) ==
    /\ pc[w] = "snapshot"
    /\ rwWriter = 0
    /\ local' = [local EXCEPT ![w] = root]
    /\ pc' = [pc EXCEPT ![w] = "compute"]
    /\ UNCHANGED <<mapVars, internVars, storeVars, indexerVars, liveVars, envVars>>
    /\ UNCHANGED <<heap, root, rwWriter, rwReaders, write_lock, call, retained, seen, log,
                   nWrites, nReturned>>

\* let new_root = <snapshot>.insert(k, v);
W_Compute(w) ==
    /\ pc[w] = "compute"
    /\ LET res == NewRoot(heap, local[w], call[w])
       IN /\ heap' = res.H
          /\ local' = [local EXCEPT ![w] = res.a]
    /\ pc' = [pc EXCEPT ![w] = "swap"]
    /\ UNCHANGED <<mapVars, internVars, storeVars, indexerVars, liveVars, envVars>>
    /\ UNCHANGED <<root, rwWriter, rwReaders, write_lock, call, retained, seen, log,
                   nWrites, nReturned>>

\* self.root.write()
W_WriteLock(w) ==
    /\ pc[w] = "swap"
    /\ rwWriter = 0
    /\ rwReaders = {}
    /\ rwWriter' = w
    /\ pc' = [pc EXCEPT ![w] = "install"]
    /\ UNCHANGED <<mapVars, internVars, storeVars, indexerVars, liveVars, envVars>>
    /\ UNCHANGED <<heap, root, rwReaders, write_lock, call, local, retained, seen, log,
                   nWrites, nReturned>>

\* W_Install that stores the new root only when there is one (if let Some).
W_Install_skipsEmpty(w) ==
    /\ pc[w] = "install"
    /\ root' = IF local[w] # 0 THEN local[w] ELSE root
    /\ rwWriter' = 0
    /\ log' = Append(log, call[w])
    /\ pc' = [pc EXCEPT ![w] = "unlock"]
    /\ UNCHANGED <<mapVars, internVars, storeVars, indexerVars, liveVars, envVars>>
    /\ UNCHANGED <<heap, rwReaders, write_lock, call, local, retained, seen,
                   nWrites, nReturned>>

\* *guard = new_root; the write guard dropped at the end of the statement
W_Install(w) ==
    /\ pc[w] = "install"
    /\ root' = local[w]
    /\ rwWriter' = 0
    /\ log' = Append(log, call[w])
    /\ pc' = [pc EXCEPT ![w] = "unlock"]
    /\ UNCHANGED <<mapVars, internVars, storeVars, indexerVars, liveVars, envVars>>
    /\ UNCHANGED <<heap, rwReaders, write_lock, call, local, retained, seen,
                   nWrites, nReturned>>

\* the call returns: _write_lock goes out of scope
W_Unlock(w) ==
    /\ pc[w] = "unlock"
    /\ write_lock' = IF write_lock = w THEN 0 ELSE write_lock
    /\ call' = [call EXCEPT ![w] = NoCall]
    /\ local' = [local EXCEPT ![w] = 0]
    /\ nReturned' = nReturned + 1
    /\ pc' = [pc EXCEPT ![w] = "idle"]
    /\ UNCHANGED <<mapVars, internVars, storeVars, indexerVars, liveVars, envVars>>
    /\ UNCHANGED <<heap, root, rwWriter, rwReaders, retained, seen, log, nWrites>>

\* A reader's snapshot(): self.root.read()
R_ReadLock(r) ==
    /\ pc[r] = "idle"
    /\ rwWriter = 0
    /\ rwReaders' = rwReaders \cup {r}
    /\ pc' = [pc EXCEPT ![r] = "clone"]
    /\ UNCHANGED <<mapVars, internVars, storeVars, indexerVars, liveVars, envVars>>
    /\ UNCHANGED <<heap, root, rwWriter, write_lock, call, local, retained, seen, log,
                   nWrites, nReturned>>

\* .unwrap().clone(): the reader keeps the Avl; it reads it with get and iter
R_Clone(r) ==
    /\ pc[r] = "clone"
    /\ retained' = [retained EXCEPT ![r] = Some(root)]
    /\ seen' = [seen EXCEPT ![r] = [items |-> Avl_iter(heap, root),
                                    gets |-> Contents(heap, root),
                                    log |-> Len(log),
                                    returned |-> nReturned]]
    /\ rwReaders' = rwReaders \ {r}
    /\ pc' = [pc EXCEPT ![r] = "idle"]
    /\ UNCHANGED <<mapVars, internVars, storeVars, indexerVars, liveVars, envVars>>
    /\ UNCHANGED <<heap, root, rwWriter, write_lock, call, local, log, nWrites, nReturned>>

NextCell ==
    \/ \E w \in Writers, c \in WriteCalls : W_Lock(w, c)
    \/ \E w \in Writers : W_Snapshot(w)
    \/ \E w \in Writers : W_Compute(w)
    \/ \E w \in Writers : W_WriteLock(w)
    \/ \E w \in Writers : W_Install(w)
    \/ \E w \in Writers : W_Unlock(w)
    \/ \E r \in Readers : R_ReadLock(r)
    \/ \E r \in Readers : R_Clone(r)

\* -------------------------------------------------------- the Intern Pool
\* An InternRef is the Arc it wraps: the address of the allocation and the
\* value stored there.
InternRef(id, content) == [id |-> id, content |-> content]

\* PartialEq for InternRef: ptr::eq of the two Arcs
InternRef_eq(a, b) == a.id = b.id

NoRef == InternRef(0, 0)

\* self.values.get(value) that never finds the value.
intern_get_miss(vals, value) == None

\* self.values.get(value).as_deref()
intern_get(vals, value) == TGet(vals, value)

InitIntern ==
    /\ values = <<>>
    /\ nextId = 1
    /\ ipc = [t \in Interners |-> "idle"]
    /\ iarg = [t \in Interners |-> 0]
    /\ interned = [t \in Interners |-> NoRef]
    /\ handed = {}
    /\ lastHit = NoRef

\* if let Some(reference) = self.values.get(value).as_deref()
\*     { InternRef(Arc::clone(reference)) }
I_Hit(t, value) ==
    /\ ipc[t] = "idle"
    /\ IsSome(intern_get(values, value))
    /\ handed' = handed \cup {intern_get(values, value)[1]}
    /\ lastHit' = intern_get(values, value)[1]
    /\ UNCHANGED <<values, nextId, ipc, iarg, interned>>
    /\ UNCHANGED <<mapVars, cellVars, storeVars, indexerVars, liveVars, envVars>>

\* else { let interned = Arc::new(value.to_owned());
\* get has returned None and released the read guard; nothing is held
\* between this step and the insert.
I_Miss(t, value) ==
    /\ ipc[t] = "idle"
    /\ ~IsSome(intern_get(values, value))
    /\ iarg' = [iarg EXCEPT ![t] = value]
    /\ interned' = [interned EXCEPT ![t] = InternRef(nextId, value)]
    /\ nextId' = nextId + 1
    /\ ipc' = [ipc EXCEPT ![t] = "insert"]
    /\ UNCHANGED <<values, handed, lastHit>>
    /\ UNCHANGED <<mapVars, cellVars, storeVars, indexerVars, liveVars, envVars>>

\* self.values.insert(value.to_owned(), interned.clone()); InternRef(interned) }
\* insert runs under the map's write_lock from its snapshot to its swap, so
\* it is one step for every other thread.
I_Insert(t) ==
    /\ ipc[t] = "insert"
    /\ values' = TUpsert(values, iarg[t], [fn |-> "const", v |-> interned[t]])
    /\ handed' = handed \cup {interned[t]}
    /\ ipc' = [ipc EXCEPT ![t] = "idle"]
    /\ iarg' = [iarg EXCEPT ![t] = 0]
    /\ interned' = [interned EXCEPT ![t] = NoRef]
    /\ UNCHANGED <<nextId, lastHit>>
    /\ UNCHANGED <<mapVars, cellVars, storeVars, indexerVars, liveVars, envVars>>

Intern(t, vs) ==
    \/ \E value \in vs : I_Hit(t, value)
    \/ \E value \in vs : I_Miss(t, value)
    \/ I_Insert(t)

\* intern called from one thread only
NextInternSeq == Intern(1, Paths)

\* intern called from every thread
NextIntern == \E t \in Interners : Intern(t, Files)

\* ------------------------------------------------------ the Posting Store
\* IndexEntry { path, offset }
IndexEntry(path, offset) == [path |-> path, offset |-> offset]

\* self.intern_pool.intern(path) called by the one thread that uses the
\* store: the handle returned and the pool after the call.
intern(vals, id, value) ==
    IF IsSome(intern_get(vals, value))
    THEN [ref |-> intern_get(vals, value)[1], values |-> vals, nextId |-> id]
    ELSE [ref |-> InternRef(id, value),
          values |-> TUpsert(vals, value, [fn |-> "const", v |-> InternRef(id, value)]),
          nextId |-> id + 1]

\* v.iter().any(|entry| entry.path == interned_path)
AnyOfPath(list, ref) == \E i \in 1..Len(list) : InternRef_eq(list[i].path, ref)

\* for (k, v) in self.avl.iter() { if any(..) { self.avl.update(k, ..) } }
\* over the items of the snapshot iter() took.
\* The loop of purge with a closure that empties the list it rewrites.
RECURSIVE PurgeItems_wholeList(_, _, _)
PurgeItems_wholeList(items, tree, ref) ==
    IF Len(items) = 0 THEN tree
    ELSE PurgeItems_wholeList(Tail(items),
                    IF AnyOfPath(Head(items)[2], ref)
                    THEN TUpdate(tree, Head(items)[1], [fn |-> "const", v |-> <<>>])
                    ELSE tree,
                    ref)

RECURSIVE PurgeItems(_, _, _)
PurgeItems(items, tree, ref) ==
    IF Len(items) = 0 THEN tree
    ELSE PurgeItems(Tail(items),
                    IF AnyOfPath(Head(items)[2], ref)
                    THEN TUpdate(tree, Head(items)[1], [fn |-> "without", id |-> ref.id])
                    ELSE tree,
                    ref)

\* AvlStorage::get
AvlStorage_get(tree, word) == TGet(tree, word)

\* A lookup that answers with the entries of the root when the word is unknown.
query_rootOnMiss(tree, word) ==
    LET entries == AvlStorage_get(tree, word)
    IN IF IsSome(entries)
       THEN {entries[1][i].path.content : i \in 1..Len(entries[1])}
       ELSE IF tree = <<>> THEN {}
       ELSE {tree[1].v[i].path.content : i \in 1..Len(tree[1].v)}

\* Indexer::query on a normalised word: the distinct paths of its entries
query(tree, word) ==
    LET entries == AvlStorage_get(tree, word)
    IN IF IsSome(entries)
       THEN {entries[1][i].path.content : i \in 1..Len(entries[1])}
       ELSE {}

\* the number of entries the store holds
RECURSIVE CountEntries(_)
CountEntries(items) ==
    IF Len(items) = 0 THEN 0 ELSE Len(Head(items)[2]) + CountEntries(Tail(items))

\* The store as a value: its term map and its intern pool.
Store(tree, vals, id) == [avl |-> tree, values |-> vals, nextId |-> id]

\* An insert that forgets the entries the term had.
insert_interned_alone(s, i, token) ==
    Store(TUpsert(s.avl, token.value,
                  [fn |-> "const", v |-> <<IndexEntry(i.ref, token.offset)>>]),
          i.values, i.nextId)

\* self.avl.upsert(value, |entries| cons(IndexEntry { path, offset }, entries))
\* with the path interned as `i`
insert_interned(s, i, token) ==
    Store(TUpsert(s.avl, token.value,
                  [fn |-> "cons", entry |-> IndexEntry(i.ref, token.offset)]),
          i.values, i.nextId)

\* AvlStorage::insert
AvlStorage_insert(s, path, token) ==
    insert_interned(s, intern(s.values, s.nextId, path), token)

\* the loop of purge with the path interned as `i`
purge_interned(s, i) == Store(PurgeItems(TIter(s.avl), s.avl, i.ref), i.values, i.nextId)

\* AvlStorage::purge
AvlStorage_purge(s, path) == purge_interned(s, intern(s.values, s.nextId, path))

\* The store after a call is the value s.
SetStore(s) ==
    /\ avl' = s.avl
    /\ values' = s.values
    /\ nextId' = s.nextId

InitStore ==
    /\ avl = <<>>
    /\ tokens = {}

\* AvlStorage::insert
S_Insert(path, value, offset) ==
    /\ CountEntries(TIter(avl)) < MaxPostings
    /\ SetStore(AvlStorage_insert(Store(avl, values, nextId), path,
                                  [value |-> value, offset |-> offset]))
    /\ tokens' = tokens \cup {[path |-> path, term |-> value, offset |-> offset]}
    /\ UNCHANGED <<mapVars, cellVars, ipc, iarg, interned, handed, lastHit, indexerVars, liveVars, envVars>>

\* AvlStorage::purge that leaves the loop after the first term it rewrote.
S_Purge_firstTermOnly(path) ==
    /\ LET i == intern(values, nextId, path)
           items == SelectSeq(TIter(avl), LAMBDA it : AnyOfPath(it[2], i.ref))
       IN /\ avl' = PurgeItems(IF Len(items) = 0 THEN items ELSE <<Head(items)>>, avl, i.ref)
          /\ values' = i.values
          /\ nextId' = i.nextId
    /\ tokens' = {tok \in tokens : tok.path # path}
    /\ UNCHANGED <<mapVars, cellVars, ipc, iarg, interned, handed, lastHit, indexerVars, liveVars, envVars>>

\* AvlStorage::purge
S_Purge(path) ==
    /\ SetStore(AvlStorage_purge(Store(avl, values, nextId), path))
    /\ tokens' = {tok \in tokens : tok.path # path}
    /\ UNCHANGED <<mapVars, cellVars, ipc, iarg, interned, handed, lastHit, indexerVars, liveVars, envVars>>

NextStore ==
    \/ \E path \in Files, value \in Terms, offset \in Offsets : S_Insert(path, value, offset)
    \/ \E path \in Files : S_Purge(path)

\* ------------------------------------------------------------ the Indexer
\* Paths and words are numbers.  Path arguments 1..MaxDoc are canonical;
\* MaxDoc + 1 is a second way to name file 1 (a relative path, a path
\* through a symbolic link).  Words 1..MaxWord are lower case; MaxWord + 1 is
\* the upper case spelling of the word MaxWord.
canonicalize(path) == IF path = MaxDoc + 1 THEN 1 ELSE path

to_lowercase(value) == IF value > MaxWord THEN MaxWord ELSE value

Token(value, offset) == [value |-> value, offset |-> offset]

LowerCase == [kind |-> "LowerCase", stop_words |-> {}]

StopWords(stop_words) == [kind |-> "StopWords", stop_words |-> stop_words]

\* TokenNormaliser::normalise of LowerCase and of StopWords
TokenNormaliser_normalise(norm, token) ==
    IF norm.kind = "LowerCase"
    THEN Some(Token(to_lowercase(token.value), token.offset))
    ELSE IF token.value \in norm.stop_words THEN None ELSE Some(token)

\* A fold that goes on with the token a normaliser rejected.
RECURSIVE try_fold_noStop(_, _)
try_fold_noStop(norms, token) ==
    IF Len(norms) = 0 THEN Some(token)
    ELSE LET r == TokenNormaliser_normalise(Head(norms), token)
         IN try_fold_noStop(Tail(norms), IF IsSome(r) THEN r[1] ELSE token)

\* Iterator::try_fold over Option: stops at the first None
RECURSIVE try_fold(_, _)
try_fold(norms, token) ==
    IF Len(norms) = 0 THEN Some(token)
    ELSE LET r == TokenNormaliser_normalise(Head(norms), token)
         IN IF IsSome(r) THEN try_fold(Tail(norms), r[1]) ELSE None

\* Indexer::normalise
Indexer_normalise(norms, token) == try_fold(norms, token)

\* A query that falls back to the lower-cased term when the chain rejects.
LookupWord_lowercased(norms, term) ==
    LET t == Indexer_normalise(norms, Token(term, 0))
    IN IF IsSome(t) THEN t[1].value ELSE to_lowercase(term)

\* Indexer::query: the word looked up
LookupWord(norms, term) ==
    LET t == Indexer_normalise(norms, Token(term, 0))
    IN IF IsSome(t) THEN t[1].value ELSE term

\* Indexer::query
Indexer_query(norms, tree, term) == query(tree, LookupWord(norms, term))

\* What a path names when index_file looks at it: nothing, a directory, or
\* a regular file with its words.
FileStates ==
    {[kind |-> "none", words |-> <<>>], [kind |-> "dir", words |-> <<>>]}
    \cup {[kind |-> "file", words |-> w] :
             w \in UNION {[1..n -> RawWords] : n \in 0..MaxLen}}

\* Tokeniser::read_token until Ok(None): the words with their offsets, one
\* byte per word and one separator between two words.
read_tokens(words) == [i \in 1..Len(words) |-> Token(words[i], 2 * (i - 1))]

\* while let Some(token) = tokeniser.read_token(..)? {
\*     if let Some(token) = self.normalise(token) { self.storage.insert(&path, token) } }
RECURSIVE IndexTokens(_, _, _, _)
IndexTokens(s, norms, path, toks) ==
    IF Len(toks) = 0 THEN s
    ELSE LET t == Indexer_normalise(norms, Head(toks))
         IN IndexTokens(IF IsSome(t) THEN AvlStorage_insert(s, path, t[1]) ELSE s,
                        norms, path, Tail(toks))

\* Indexer::index_file
Indexer_index_file(s, norms, path, file) ==
    IF file.kind # "file" THEN s
    ELSE IndexTokens(s, norms, canonicalize(path), read_tokens(file.words))

\* Indexer::clear_from_index
Indexer_clear_from_index(s, path) == AvlStorage_purge(s, path)

Normalisers == {LowerCase, StopWords({MaxWord})}

\* Every chain with_normaliser builds from the two normalisers.
Chains == {<<>>} \cup {<<a>> : a \in Normalisers}
          \cup {c \in {<<a, b>> : a \in Normalisers, b \in Normalisers} : c[1] # c[2]}

\* The chain step by step: the token after the first k normalisers, None
\* once one of them has rejected it.
RECURSIVE After(_, _, _)
After(norms, token, k) ==
    IF k = 0 THEN Some(token)
    ELSE LET prev == After(norms, token, k - 1)
         IN IF IsSome(prev) THEN TokenNormaliser_normalise(norms[k], prev[1]) ELSE None

\* The tokens of a file that no normaliser rejects, as the last one left them.
Accepted(norms, path, words) ==
    {[path |-> path,
      term |-> After(norms, read_tokens(words)[i], Len(norms))[1].value,
      offset |-> read_tokens(words)[i].offset] :
        i \in {j \in 1..Len(words) :
                  \A k \in 0..Len(norms) : IsSome(After(norms, read_tokens(words)[j], k))}}

InitIndexer == token_normalisers \in Chains

\* Indexer::index_file(path), the path naming `file` at the time of the call
IndexFile(path, file) ==
    /\ CountEntries(TIter(avl)) + Len(file.words) <= MaxPostings
    /\ SetStore(Indexer_index_file(Store(avl, values, nextId), token_normalisers, path, file))
    /\ tokens' = IF file.kind = "file"
                 THEN tokens \cup Accepted(token_normalisers, canonicalize(path), file.words)
                 ELSE tokens
    /\ UNCHANGED token_normalisers
    /\ UNCHANGED <<mapVars, cellVars, ipc, iarg, interned, handed, lastHit, liveVars, envVars>>

\* Indexer::clear_from_index(path)
ClearFromIndex(path) ==
    /\ SetStore(Indexer_clear_from_index(Store(avl, values, nextId), path))
    /\ tokens' = {tok \in tokens : tok.path # path}
    /\ UNCHANGED token_normalisers
    /\ UNCHANGED <<mapVars, cellVars, ipc, iarg, interned, handed, lastHit, liveVars, envVars>>

NextIndexer ==
    \/ \E path \in PathArgs, file \in FileStates : IndexFile(path, file)
    \/ \E path \in LiveFiles : ClearFromIndex(path)

\* ------------------------------------------------------- the live indexer
Threads == {"worker", "watcher", "caller"}

\* The directory the service watches.
Dir == MaxDoc + 2

\* Two more names under Dir: Other is the name a file is renamed to or a
\* second file, Bad is an entry that cannot be read.
Other == MaxDoc + 3

Bad == MaxDoc + 4

DiskPaths == LiveFiles \cup {Other, Bad}

\* What a path can be: nothing, a regular file with its words, a regular
\* file that cannot be opened ("locked"), a subdirectory that cannot be
\* listed ("unreadable").
Entry(kind, words) == [kind |-> kind, words |-> words]

NoEntry == Entry("none", <<>>)

\* The content every file of Dir has when the service starts.
OldWords == <<1, MaxWord + 1>>

\* What is on disk at a path.
Disk(path) ==
    IF path = Dir THEN Entry("dir", <<>>)
    ELSE IF path \in DiskPaths THEN disk[path]
    ELSE NoEntry

\* The order in which a walk of Dir meets the names under it.
DirOrder == <<Bad>> \o [i \in 1..MaxDoc |-> i] \o <<Other>>

IsEntry(path) == Disk(path).kind # "none"

\* WalkDir::new(path): the directory itself, then the entries it has
WalkDir(path) ==
    IF path = Dir THEN <<Dir>> \o SelectSeq(DirOrder, IsEntry)
    ELSE <<path>>

\* The position of the first entry after which the walk yields an Err (the
\* listing of the entry fails), or 0.
RECURSIVE first_err(_, _)
first_err(walk, i) ==
    IF i > Len(walk) THEN 0
    ELSE IF Disk(walk[i]).kind = "unreadable" THEN i
    ELSE first_err(walk, i + 1)

\* A loop that also ends at the first file that cannot be opened.
walked_untilLocked(path) ==
    LET locked == {i \in 1..Len(WalkDir(path)) : Disk(WalkDir(path)[i]).kind = "locked"}
    IN IF locked = {} THEN WalkDir(path)
       ELSE SubSeq(WalkDir(path), 1, CHOOSE i \in locked : \A j \in locked : i <= j)

\* for entry in WalkDir::new(..) { let entry = entry?; .. }: the entries the
\* loop body runs for.
walked(path) ==
    IF first_err(WalkDir(path), 1) = 0 THEN WalkDir(path)
    ELSE SubSeq(WalkDir(path), 1, first_err(WalkDir(path), 1))

\* notify::DebouncedEvent
DebouncedEvent(kind, path, to) == [kind |-> kind, path |-> path, to |-> to]

\* The events the worker matches; the path of an event whose arm does not
\* read it is left out.
DebouncedEvents ==
    {DebouncedEvent(k, p, p) : k \in {"Write", "Create", "Remove"}, p \in LiveFiles}
    \cup {DebouncedEvent("Rename", p, q) : p \in LiveFiles, q \in LiveFiles}
    \cup {DebouncedEvent(k, 0, 0) :
              k \in {"Error", "Rescan", "Chmod", "NoticeWrite", "NoticeRemove"}}

\* enum IndexingAction
IndexingAction(op, path) == [op |-> op, path |-> path]

\* A watching worker that queues the Add of a renamed file for its old name.
watcher_match_addOld(event) ==
    CASE event.kind = "Write" ->
             <<IndexingAction("Remove", event.path), IndexingAction("Add", event.path)>>
      [] event.kind = "Create" -> <<IndexingAction("Add", event.path)>>
      [] event.kind = "Remove" -> <<IndexingAction("Remove", event.path)>>
      [] event.kind = "Rename" ->
             <<IndexingAction("Remove", event.path), IndexingAction("Add", event.path)>>
      [] OTHER -> <<>>

\* A watching worker that queues the Add of a written file before its Remove.
watcher_match_addFirst(event) ==
    CASE event.kind = "Write" ->
             <<IndexingAction("Add", event.path), IndexingAction("Remove", event.path)>>
      [] event.kind = "Create" -> <<IndexingAction("Add", event.path)>>
      [] event.kind = "Remove" -> <<IndexingAction("Remove", event.path)>>
      [] event.kind = "Rename" ->
             <<IndexingAction("Remove", event.path), IndexingAction("Add", event.to)>>
      [] OTHER -> <<>>

\* The sends of the watching worker for one event, in order.
watcher_match(event) ==
    CASE event.kind = "Write" ->
             <<IndexingAction("Remove", event.path), IndexingAction("Add", event.path)>>
      [] event.kind = "Create" -> <<IndexingAction("Add", event.path)>>
      [] event.kind = "Remove" -> <<IndexingAction("Remove", event.path)>>
      [] event.kind = "Rename" ->
             <<IndexingAction("Remove", event.path), IndexingAction("Add", event.to)>>
      [] OTHER -> <<>>

\* A call of Indexer::index_file or Indexer::clear_from_index
IndexerCall(fn, path) == [fn |-> fn, path |-> path]

\* The match of the indexing worker with add_dir and remove_dir: the calls
\* one action makes, in order.
action_calls(action) ==
    CASE action.op = "Add" -> <<IndexerCall("index_file", action.path)>>
      [] action.op = "AddDir" ->
             IF ~IsEntry(action.path) THEN <<>>
             ELSE [i \in 1..Len(walked(action.path)) |->
                      IndexerCall("index_file", walked(action.path)[i])]
      [] action.op = "Remove" -> <<IndexerCall("clear_from_index", action.path)>>
      [] action.op = "RemoveDir" ->
             IF ~IsEntry(action.path) THEN <<>>
             ELSE [i \in 1..Len(walked(action.path)) |->
                      IndexerCall("clear_from_index", walked(action.path)[i])]

\* What add_dir and remove_dir return: the Err of path.canonicalize()? or of
\* the first entry? that fails.
dir_result(path) ==
    IF ~IsEntry(path) \/ first_err(WalkDir(path), 1) # 0 THEN "Err" ELSE "Ok"

\* What Indexer::index_file returns: the Err of fs::metadata(path)? or of
\* fs::File::open(&path)?.
index_file_result(path) ==
    IF Disk(path).kind \in {"none", "locked"} THEN "Err" ELSE "Ok"

\* LiveIndexer::process_watcher_event of the crate root: the calls the
\* watcher thread makes itself for one event, in order.
process_watcher_event(event) ==
    CASE event.kind = "Write" ->
             <<IndexerCall("clear_from_index", event.path),
               IndexerCall("index_file", event.path)>>
      [] event.kind = "Create" -> <<IndexerCall("index_file", event.path)>>
      [] event.kind = "Remove" -> <<IndexerCall("clear_from_index", event.path)>>
      [] event.kind = "Rename" ->
             <<IndexerCall("clear_from_index", event.path),
               IndexerCall("index_file", event.to)>>
      [] OTHER -> <<>>

\* The storage.insert calls of one index_file, one per token the chain accepts.
index_file_prims(norms, path) ==
    IF Disk(path).kind # "file" THEN <<>>
    ELSE LET toks == read_tokens(Disk(path).words)
             normalised == [i \in 1..Len(toks) |-> Indexer_normalise(norms, toks[i])]
             kept == SelectSeq(normalised, IsSome)
         IN [i \in 1..Len(kept) |->
                [p |-> "insert", path |-> canonicalize(path), token |-> kept[i][1]]]

\* A purge that stops after the first term it updates.
purge_prims_firstOnly(tree, ref) ==
    LET items == SelectSeq(TIter(tree), LAMBDA it : AnyOfPath(it[2], ref))
    IN [i \in 1..(IF Len(items) > 0 THEN 1 ELSE 0) |->
           [p |-> "update", key |-> items[i][1], ref |-> ref]]

\* The avl.update calls of one purge: one per term of the snapshot whose
\* list names the path.
purge_prims(tree, ref) ==
    LET items == SelectSeq(TIter(tree), LAMBDA it : AnyOfPath(it[2], ref))
    IN [i \in 1..Len(items) |-> [p |-> "update", key |-> items[i][1], ref |-> ref]]

\* The thread still exists; a caller does as long as the LiveIndexer does.
Alive(th) == alive[IF th = "caller" THEN "handle" ELSE th]

\* The threads that are inside a call that changes the index.
Mutating == {th \in Threads : prims[th] # <<>>}

\* The disk when the service starts: the files of Dir with their first words.
StartDisk == [p \in DiskPaths |-> IF p \in LiveFiles THEN Entry("file", OldWords)
                                  ELSE NoEntry]

\* LiveIndexer::start with the disk d and the watcher holding roots
InitLiveOn(d, roots) ==
    /\ events = <<>>
    /\ nevents = 0
    /\ indexing_queue = <<>>
    /\ sent = 0
    /\ wpending = <<>>
    /\ current = None
    /\ processed = 0
    /\ todo = [th \in Threads |-> <<>>]
    /\ prims = [th \in Threads |-> <<>>]
    /\ ncalls = 0
    /\ qres = None
    /\ disk = d
    /\ arm_result = "Ok"
    /\ warned = {}
    /\ watched = roots
    /\ returns = <<>>
    /\ held = None
    /\ qlog = <<>>
    /\ hist = {{}}
    /\ alive = [who \in {"handle", "watcher", "worker"} |-> TRUE]
    /\ repl = "prompt"

InitLive == InitLiveOn(StartDisk, {})

\* mpsc::Sender::send on indexing_queue
send(action) ==
    /\ indexing_queue' = Append(indexing_queue, [action |-> action, seq |-> sent + 1])
    /\ sent' = sent + 1

\* A receiver that throws away what is queued behind the message it hands out.
recv_discard(queue) == [msg |-> Head(queue), rest |-> <<>>]

\* A receiver that hands out the newest message.
recv_newest(queue) == [msg |-> queue[Len(queue)], rest |-> SubSeq(queue, 1, Len(queue) - 1)]

\* A channel whose recv fails as soon as the senders are gone.
disconnected_early(queue, senders) == senders = {}

\* mpsc::Receiver::recv returns Err: the channel is empty and every sender
\* has been dropped.
disconnected(queue, senders) == queue = <<>> /\ senders = {}

\* mpsc::Receiver::recv: the oldest message and the rest of the channel
recv(queue) == [msg |-> Head(queue), rest |-> Tail(queue)]

\* The file watcher reports an event.
Notify(event) ==
    /\ alive.handle
    /\ nevents < MaxEvents
    /\ events' = Append(events, event)
    /\ nevents' = nevents + 1
    /\ UNCHANGED <<indexing_queue, sent, wpending, current, processed, todo, prims,
                   ncalls, qres>>
    /\ UNCHANGED <<envVars, mapVars, cellVars, internVars, storeVars, indexerVars>>

\* spawn_watching_worker: watcher_event_rx.recv() and the match arm chosen
WatcherRecv ==
    /\ alive.watcher
    /\ wpending = <<>>
    /\ events # <<>>
    /\ wpending' = watcher_match(recv(events).msg)
    /\ events' = recv(events).rest
    /\ UNCHANGED <<nevents, indexing_queue, sent, current, processed, todo, prims,
                   ncalls, qres>>
    /\ UNCHANGED <<envVars, mapVars, cellVars, internVars, storeVars, indexerVars>>

\* spawn_watching_worker: the next indexing_queue.send(..) of the arm
WatcherSend ==
    /\ alive.watcher
    /\ wpending # <<>>
    /\ send(Head(wpending))
    /\ wpending' = Tail(wpending)
    /\ UNCHANGED <<events, nevents, current, processed, todo, prims, ncalls, qres>>
    /\ UNCHANGED <<envVars, mapVars, cellVars, internVars, storeVars, indexerVars>>

\* A call of watch or unwatch that has returned.
Returned(fn, path, r) == [fn |-> fn, path |-> path, r |-> r]

\* LiveIndexer::watch of live_indexer.rs: r is what
\* self.watcher.lock().unwrap().watch(..) returns; an Err is returned to the
\* caller by the ? and nothing is queued.
LiveIndexer_watch(path, r) ==
    /\ alive.handle
    /\ ncalls < MaxCalls
    /\ IF r = "Ok"
       THEN /\ watched' = watched \cup {path}
            /\ send(IndexingAction("AddDir", path))
       ELSE UNCHANGED <<watched, indexing_queue, sent>>
    /\ returns' = Append(returns, Returned("watch", path, r))
    /\ ncalls' = ncalls + 1
    /\ UNCHANGED <<events, nevents, wpending, current, processed, todo, prims, qres>>
    /\ UNCHANGED <<disk, arm_result, warned, readerVars>>
    /\ UNCHANGED <<mapVars, cellVars, internVars, storeVars, indexerVars>>

\* LiveIndexer::unwatch of live_indexer.rs: r is what
\* self.watcher.lock().unwrap().unwatch(path) returns.
LiveIndexer_unwatch(path, r) ==
    /\ alive.handle
    /\ ncalls < MaxCalls
    /\ IF r = "Ok"
       THEN /\ watched' = watched \ {path}
            /\ send(IndexingAction("RemoveDir", path))
       ELSE UNCHANGED <<watched, indexing_queue, sent>>
    /\ returns' = Append(returns, Returned("unwatch", path, r))
    /\ ncalls' = ncalls + 1
    /\ UNCHANGED <<events, nevents, wpending, current, processed, todo, prims, qres>>
    /\ UNCHANGED <<disk, arm_result, warned, readerVars>>
    /\ UNCHANGED <<mapVars, cellVars, internVars, storeVars, indexerVars>>

\* watch called by a thread that goes on: the watcher takes the path
Watch(path) == LiveIndexer_watch(path, "Ok") /\ UNCHANGED <<alive, repl>>

\* unwatch called by a thread that goes on: the watcher drops the path
Unwatch(path) == LiveIndexer_unwatch(path, "Ok") /\ UNCHANGED <<alive, repl>>

\* watch called by a thread that goes on: the watcher refuses the path
WatchErr(path) == LiveIndexer_watch(path, "Err") /\ UNCHANGED <<alive, repl>>

\* unwatch called by a thread that goes on: the watcher does not know the path
UnwatchErr(path) == LiveIndexer_unwatch(path, "Err") /\ UNCHANGED <<alive, repl>>

\* The process has ended: every thread is gone.
Exited == [who \in {"handle", "watcher", "worker"} |-> FALSE]

\* main, ["watch", paths @ ..]: try_for_each(|path| indexer.watch(path))?
\* returns the Err from main.
MainWatch(path, r) ==
    /\ repl = "prompt"
    /\ LiveIndexer_watch(path, r)
    /\ repl' = IF r = "Err" THEN "error" ELSE "prompt"
    /\ alive' = IF r = "Err" THEN Exited ELSE alive

\* main, ["unwatch", paths @ ..]: an Err is logged with warn!.
MainUnwatch(path, r) ==
    /\ repl = "prompt"
    /\ LiveIndexer_unwatch(path, r)
    /\ UNCHANGED <<alive, repl>>

\* main, ["quit", ..] => return Ok(())
MainQuit ==
    /\ repl = "prompt"
    /\ repl' = "quit"
    /\ alive' = Exited
    /\ UNCHANGED liveVars
    /\ UNCHANGED <<disk, arm_result, warned, watched, returns, readerVars>>
    /\ UNCHANGED <<mapVars, cellVars, internVars, storeVars, indexerVars>>

\* LiveIndexer::query, from a thread that is not inside watch or unwatch
Query(term) ==
    /\ alive.handle
    /\ ncalls < MaxCalls
    /\ todo["caller"] = <<>> /\ prims["caller"] = <<>>
    /\ qres' = Some([term |-> term,
                     result |-> Indexer_query(token_normalisers, avl, term),
                     entries |-> AvlStorage_get(avl, LookupWord(token_normalisers, term)),
                     busy |-> Mutating # {}])
    /\ ncalls' = ncalls + 1
    /\ UNCHANGED <<events, nevents, indexing_queue, sent, wpending, current, processed,
                   todo, prims>>
    /\ UNCHANGED <<envVars, mapVars, cellVars, internVars, storeVars, indexerVars>>

\* spawn_indexing_worker: indexing_queue_rx.recv() and the match arm chosen
WorkerRecv ==
    /\ alive.worker
    /\ current = None
    /\ indexing_queue # <<>>
    /\ indexing_queue' = recv(indexing_queue).rest
    /\ todo' = [todo EXCEPT !["worker"] = action_calls(recv(indexing_queue).msg.action)]
    /\ arm_result' = IF recv(indexing_queue).msg.action.op \in {"AddDir", "RemoveDir"}
                      THEN dir_result(recv(indexing_queue).msg.action.path)
                      ELSE "Ok"
    /\ IF action_calls(recv(indexing_queue).msg.action) = <<>>
       THEN /\ current' = None
            /\ processed' = processed + 1
            /\ warned' = IF arm_result' = "Err"
                          THEN warned \cup {recv(indexing_queue).msg.seq}
                          ELSE warned
       ELSE /\ current' = Some(recv(indexing_queue).msg)
            /\ UNCHANGED <<processed, warned>>
    /\ UNCHANGED <<events, nevents, sent, wpending, prims, ncalls, qres>>
    /\ UNCHANGED <<disk, watched, returns, readerVars, alive, repl>>
    /\ UNCHANGED <<mapVars, cellVars, internVars, storeVars, indexerVars>>

\* The worker's match arm returns once the thread has no call and no update
\* left, and the worker logs the Err it returned.
Returns(th) ==
    IF th = "worker" /\ todo'[th] = <<>> /\ prims'[th] = <<>>
    THEN /\ current' = None
         /\ processed' = processed + 1
         /\ warned' = IF arm_result' = "Err" THEN warned \cup {current[1].seq} ELSE warned
    ELSE UNCHANGED <<current, processed, warned>>

\* purge after let interned_path = self.intern_pool.intern(path): the pool
\* holds the path and the thread has the updates of its snapshot left.
BeginPurge(th, i) ==
    /\ prims' = [prims EXCEPT ![th] = purge_prims(avl, i.ref)]
    /\ values' = i.values
    /\ nextId' = i.nextId

\* A thread enters its next call: index_file reads the file and keeps the
\* tokens the chain accepts; clear_from_index interns the path and takes the
\* snapshot purge iterates over.
BeginCall(th) ==
    /\ Alive(th)
    /\ prims[th] = <<>>
    /\ todo[th] # <<>>
    /\ todo' = [todo EXCEPT ![th] = Tail(todo[th])]
    /\ IF Head(todo[th]).fn = "index_file"
       THEN /\ prims' = [prims EXCEPT
                             ![th] = index_file_prims(token_normalisers, Head(todo[th]).path)]
            /\ UNCHANGED <<values, nextId>>
       ELSE BeginPurge(th, intern(values, nextId, Head(todo[th]).path))
    /\ arm_result' = IF /\ th = "worker"
                         /\ Head(todo[th]).fn = "index_file"
                         /\ current[1].action.op = "Add"
                      THEN index_file_result(Head(todo[th]).path)
                      ELSE arm_result
    /\ Returns(th)
    /\ UNCHANGED <<events, nevents, indexing_queue, sent, wpending, ncalls, qres>>
    /\ UNCHANGED <<disk, watched, returns, readerVars, alive, repl>>
    /\ UNCHANGED <<mapVars, cellVars, ipc, iarg, interned, handed, lastHit, storeVars,
                   indexerVars>>

\* The term the querying thread asks for: a word of every file.
XTerm == 1

\* A thread makes the next update of the call it is in: storage.insert of
\* one token, or avl.update of one term of the purge.
Update(th) ==
    /\ Alive(th)
    /\ prims[th] # <<>>
    /\ prims' = [prims EXCEPT ![th] = Tail(prims[th])]
    /\ LET op == Head(prims[th])
       IN IF op.p = "insert"
          THEN /\ SetStore(AvlStorage_insert(Store(avl, values, nextId), op.path, op.token))
               /\ tokens' = tokens \cup {[path |-> op.path, term |-> op.token.value,
                                             offset |-> op.token.offset]}
          ELSE /\ avl' = TUpdate(avl, op.key, [fn |-> "without", id |-> op.ref.id])
               /\ tokens' = {tok \in tokens :
                                ~(tok.term = op.key /\ tok.path = op.ref.content)}
               /\ UNCHANGED <<values, nextId>>
    /\ UNCHANGED <<todo, arm_result>>
    /\ Returns(th)
    /\ UNCHANGED <<events, nevents, indexing_queue, sent, wpending, ncalls, qres>>
    /\ UNCHANGED <<disk, watched, returns, alive, repl>>
    /\ UNCHANGED <<mapVars, cellVars, ipc, iarg, interned, handed, lastHit, indexerVars>>

\* An update while no thread is known to query.
Prim(th) ==
    /\ Update(th)
    /\ UNCHANGED readerVars

\* An update of the worker while another thread queries XTerm.
WriterPrim ==
    /\ Update("worker")
    /\ hist' = hist \cup {query(avl', XTerm)}
    /\ UNCHANGED <<held, qlog>>

\* The threads other than the querying one leave its state alone.
ReaderStep ==
    /\ UNCHANGED liveVars
    /\ UNCHANGED <<disk, arm_result, warned, watched, returns, alive, repl>>
    /\ UNCHANGED <<mapVars, cellVars, internVars, storeVars, indexerVars>>

\* Indexer::query, self.storage.get(&word): the querying thread gets the
\* entries of the snapshot it takes.
ReaderGet ==
    /\ held = None
    /\ Len(qlog) < MaxQueries
    /\ held' = Some(AvlStorage_get(avl, LookupWord(token_normalisers, XTerm)))
    /\ UNCHANGED <<qlog, hist>>
    /\ ReaderStep

\* Indexer::query, the closure over the entries: the querying thread reads
\* the entries it holds and returns their paths.
ReaderCollect ==
    /\ held # None
    /\ qlog' = Append(qlog, IF IsSome(held[1])
                            THEN {held[1][1][i].path.content : i \in 1..Len(held[1][1])}
                            ELSE {})
    /\ held' = None
    /\ UNCHANGED hist
    /\ ReaderStep

\* One thread indexes the files of Dir while another queries XTerm.
NextReader ==
    \/ Watch(Dir)
    \/ WorkerRecv
    \/ BeginCall("worker")
    \/ WriterPrim
    \/ ReaderGet
    \/ ReaderCollect

\* The watcher thread of the crate root: watcher_event_rx.recv() and
\* process_watcher_event, which makes the calls itself.
LibWatcherRecv ==
    /\ alive.watcher
    /\ todo["watcher"] = <<>> /\ prims["watcher"] = <<>>
    /\ events # <<>>
    /\ todo' = [todo EXCEPT !["watcher"] = process_watcher_event(recv(events).msg)]
    /\ events' = recv(events).rest
    /\ UNCHANGED <<nevents, indexing_queue, sent, wpending, current, processed, prims,
                   ncalls, qres>>
    /\ UNCHANGED <<envVars, mapVars, cellVars, internVars, storeVars, indexerVars>>

\* LiveIndexer::watch of the crate root: index_file for every entry, in the
\* calling thread.
LibWatch(path) ==
    /\ ncalls < MaxCalls
    /\ todo["caller"] = <<>> /\ prims["caller"] = <<>>
    /\ todo' = [todo EXCEPT !["caller"] = action_calls(IndexingAction("AddDir", path))]
    /\ ncalls' = ncalls + 1
    /\ UNCHANGED <<events, nevents, indexing_queue, sent, wpending, current, processed,
                   prims, qres>>
    /\ UNCHANGED <<envVars, mapVars, cellVars, internVars, storeVars, indexerVars>>

\* LiveIndexer::unwatch of the crate root: clear_from_index for every entry,
\* in the calling thread.
LibUnwatch(path) ==
    /\ ncalls < MaxCalls
    /\ todo["caller"] = <<>> /\ prims["caller"] = <<>>
    /\ todo' = [todo EXCEPT !["caller"] = action_calls(IndexingAction("RemoveDir", path))]
    /\ ncalls' = ncalls + 1
    /\ UNCHANGED <<events, nevents, indexing_queue, sent, wpending, current, processed,
                   prims, qres>>
    /\ UNCHANGED <<envVars, mapVars, cellVars, internVars, storeVars, indexerVars>>

\* The contents a file is given when it is written or created.
FileWords == UNION {[1..n -> RawWords] : n \in 0..MaxLen}

\* The watcher reports a change under a path it watches.
report(event) ==
    /\ events' = IF Dir \in watched THEN Append(events, event) ELSE events
    /\ nevents' = nevents + 1

\* Something outside the service changes what is on disk.
ChangeDisk(d) ==
    /\ alive.handle
    /\ nevents < MaxEvents
    /\ disk' = d
    /\ UNCHANGED <<indexing_queue, sent, wpending, current, processed, todo, prims,
                   ncalls, qres>>
    /\ UNCHANGED <<arm_result, warned, watched, returns, readerVars, alive, repl>>
    /\ UNCHANGED <<mapVars, cellVars, internVars, storeVars, indexerVars>>

\* A file under Dir is overwritten with other words.
WriteFile(path, words) ==
    /\ Disk(path).kind = "file"
    /\ words # Disk(path).words
    /\ ChangeDisk([disk EXCEPT ![path] = Entry("file", words)])
    /\ report(DebouncedEvent("Write", path, path))

\* A file under Dir is given another name under Dir.
RenameFile(path, to) ==
    /\ Disk(path).kind = "file"
    /\ Disk(to).kind = "none"
    /\ ChangeDisk([disk EXCEPT ![path] = NoEntry, ![to] = disk[path]])
    /\ report(DebouncedEvent("Rename", path, to))

\* A file under Dir is deleted.
RemoveFile(path) ==
    /\ Disk(path).kind = "file"
    /\ ChangeDisk([disk EXCEPT ![path] = NoEntry])
    /\ report(DebouncedEvent("Remove", path, path))

\* A file is created under Dir.
CreateFile(path, words) ==
    /\ Disk(path).kind = "none"
    /\ ChangeDisk([disk EXCEPT ![path] = Entry("file", words)])
    /\ report(DebouncedEvent("Create", path, path))

\* live_indexer.rs while files change: the watching worker and the indexing
\* worker
NextChange ==
    \/ \E path \in LiveFiles, words \in FileWords : WriteFile(path, words)
    \/ \E path \in LiveFiles : RenameFile(path, Other)
    \/ WatcherRecv
    \/ WatcherSend
    \/ WorkerRecv
    \/ BeginCall("worker")
    \/ Prim("worker")

\* live_indexer.rs over a Dir with an entry that fails: watch or unwatch,
\* the events of files that appear, and the two workers
NextWalk ==
    \/ \E path \in LiveFiles \cup {Bad} : Notify(DebouncedEvent("Create", path, path))
    \/ WatcherRecv
    \/ WatcherSend
    \/ Watch(Dir)
    \/ Unwatch(Dir)
    \/ WorkerRecv
    \/ BeginCall("worker")
    \/ Prim("worker")

\* The senders of the watcher events: the watcher the LiveIndexer owns.
event_senders == {who \in {"handle"} : alive[who]}

\* The senders of indexing_queue: the LiveIndexer and the watching worker.
queue_senders == {who \in {"handle", "watcher"} : alive[who]}

\* Only the handle or a worker goes away.
Exits(who) ==
    /\ alive[who]
    /\ alive' = [alive EXCEPT ![who] = FALSE]
    /\ UNCHANGED liveVars
    /\ UNCHANGED <<disk, arm_result, warned, watched, returns, readerVars, repl>>
    /\ UNCHANGED <<mapVars, cellVars, internVars, storeVars, indexerVars>>

\* The LiveIndexer is dropped: its queue sender and its watcher go.
Drop == Exits("handle")

\* spawn_watching_worker: watcher_event_rx.recv() is an Err and the thread
\* ends, which drops its clone of the queue sender.
WatcherExit ==
    /\ wpending = <<>>
    /\ disconnected(events, event_senders)
    /\ Exits("watcher")

\* spawn_indexing_worker: indexing_queue_rx.recv() is an Err and the thread ends.
WorkerExit ==
    /\ current = None
    /\ disconnected(indexing_queue, queue_senders)
    /\ Exits("worker")

\* The steps of the watching worker and of the indexing worker.
WatcherStep == WatcherRecv \/ WatcherSend \/ WatcherExit

WorkerStep == WorkerRecv \/ BeginCall("worker") \/ Prim("worker") \/ WorkerExit

\* live_indexer.rs until its threads have ended
NextShutdown ==
    \/ \E path \in LiveFiles : Notify(DebouncedEvent("Write", path, path))
    \/ Watch(Dir)
    \/ Drop
    \/ WatcherRecv
    \/ WatcherSend
    \/ WatcherExit
    \/ WorkerRecv
    \/ BeginCall("worker")
    \/ Prim("worker")
    \/ WorkerExit

\* main over live_indexer.rs: the commands of the loop and the threads
NextMain ==
    \/ \E r \in {"Ok", "Err"} : MainWatch(Dir, r)
    \/ \E r \in {"Ok", "Err"} : MainUnwatch(Dir, r)
    \/ \E term \in RawWords : Query(term)
    \/ MainQuit
    \/ \E path \in LiveFiles : Notify(DebouncedEvent("Write", path, path))
    \/ WatcherRecv
    \/ WatcherSend
    \/ WorkerRecv
    \/ BeginCall("worker")
    \/ Prim("worker")

\* live_indexer.rs while files are written and Dir is unwatched
NextUnwatch ==
    \/ \E path \in LiveFiles, words \in FileWords : WriteFile(path, words)
    \/ Unwatch(Dir)
    \/ WatcherRecv
    \/ WatcherSend
    \/ WorkerRecv
    \/ BeginCall("worker")
    \/ Prim("worker")

\* live_indexer.rs over a Dir with an entry that fails while watch is called
\* and files are written, created and deleted
NextWatch ==
    \/ \E path \in LiveFiles, words \in FileWords : WriteFile(path, words)
    \/ \E words \in FileWords : CreateFile(Other, words)
    \/ \E path \in LiveFiles : RemoveFile(path)
    \/ Watch(Dir)
    \/ WatchErr(Dir)
    \/ WatcherRecv
    \/ WatcherSend
    \/ WorkerRecv
    \/ BeginCall("worker")
    \/ Prim("worker")

\* live_indexer.rs: the watching worker, the indexing worker and the callers
NextLive ==
    \/ \E event \in DebouncedEvents : Notify(event)
    \/ WatcherRecv
    \/ WatcherSend
    \/ Watch(Dir)
    \/ Unwatch(Dir)
    \/ \E term \in RawWords : Query(term)
    \/ WorkerRecv
    \/ BeginCall("worker")
    \/ Prim("worker")

\* The interning thread a thread of the crate root is.
Tid(th) == IF th = "watcher" THEN 1 ELSE 2

\* A thread enters index_file.
BeginIndex(th) ==
    /\ todo[th] # <<>>
    /\ Head(todo[th]).fn = "index_file"
    /\ BeginCall(th)

\* A thread enters clear_from_index: purge calls intern, which begins with
\* self.values.get(value).  On a hit intern returns and purge takes the
\* snapshot it iterates over; on a miss the thread makes its own Arc and
\* holds nothing until its insert.
PurgeGet(th) ==
    /\ Alive(th)
    /\ prims[th] = <<>>
    /\ todo[th] # <<>>
    /\ Head(todo[th]).fn = "clear_from_index"
    /\ ipc[Tid(th)] = "idle"
    /\ IF IsSome(intern_get(values, Head(todo[th]).path))
       THEN /\ todo' = [todo EXCEPT ![th] = Tail(todo[th])]
            /\ prims' = [prims EXCEPT
                             ![th] = purge_prims(avl, intern_get(values, Head(todo[th]).path)[1])]
            /\ UNCHANGED <<nextId, ipc, iarg, interned>>
       ELSE /\ iarg' = [iarg EXCEPT ![Tid(th)] = Head(todo[th]).path]
            /\ interned' = [interned EXCEPT
                                ![Tid(th)] = InternRef(nextId, Head(todo[th]).path)]
            /\ nextId' = nextId + 1
            /\ ipc' = [ipc EXCEPT ![Tid(th)] = "insert"]
            /\ UNCHANGED <<todo, prims>>
    /\ UNCHANGED <<events, nevents, indexing_queue, sent, wpending, current, processed,
                   ncalls, qres>>
    /\ UNCHANGED <<envVars, mapVars, cellVars, values, handed, lastHit, storeVars,
                   indexerVars>>

\* The insert of the intern a purge began with a miss, then the snapshot
\* purge iterates over.
PurgeInsert(th) ==
    /\ Alive(th)
    /\ ipc[Tid(th)] = "insert"
    /\ values' = TUpsert(values, iarg[Tid(th)], [fn |-> "const", v |-> interned[Tid(th)]])
    /\ todo' = [todo EXCEPT ![th] = Tail(todo[th])]
    /\ prims' = [prims EXCEPT ![th] = purge_prims(avl, interned[Tid(th)])]
    /\ ipc' = [ipc EXCEPT ![Tid(th)] = "idle"]
    /\ iarg' = [iarg EXCEPT ![Tid(th)] = 0]
    /\ interned' = [interned EXCEPT ![Tid(th)] = NoRef]
    /\ UNCHANGED <<events, nevents, indexing_queue, sent, wpending, current, processed,
                   ncalls, qres>>
    /\ UNCHANGED <<envVars, mapVars, cellVars, nextId, handed, lastHit, storeVars,
                   indexerVars>>

\* The Indexer of the crate root used by its two threads at once, with the
\* steps of intern inside purge
NextThreads ==
    \/ \E event \in DebouncedEvents : Notify(event)
    \/ LibWatcherRecv
    \/ LibWatch(Dir)
    \/ LibUnwatch(Dir)
    \/ \E th \in {"watcher", "caller"} : BeginIndex(th)
    \/ \E th \in {"watcher", "caller"} : PurgeGet(th)
    \/ \E th \in {"watcher", "caller"} : PurgeInsert(th)
    \/ \E th \in {"watcher", "caller"} : Prim(th)

\* The crate root: the watcher thread and the callers
NextLib ==
    \/ \E event \in DebouncedEvents : Notify(event)
    \/ LibWatcherRecv
    \/ LibWatch(Dir)
    \/ LibUnwatch(Dir)
    \/ \E term \in RawWords : Query(term)
    \/ \E th \in {"watcher", "caller"} : BeginCall(th)
    \/ \E th \in {"watcher", "caller"} : Prim(th)

\* ------------------------------------------- the locks of the Posting Store
\* Threads call AvlStorage::insert, purge and get at the same time, every
\* thread once.  The term map (avl) and the pool's map (values) are two Avl
\* of avl.rs, each with a write_lock mutex and a root RwLock.  write_lock
\* and rwWriter are the locks of the term map and pc[t] is where thread t is
\* in its call; ipc[t] is where it is in intern, and the locks of the pool's
\* map are held by the threads that stand between taking and releasing
\* them.  A read guard is taken and dropped within snapshot()'s statement.
StoreCalls ==
    {[op |-> "insert", path |-> p, value |-> XTerm] : p \in LiveFiles}
        \cup {[op |-> "purge", path |-> p, value |-> 0] : p \in LiveFiles}
        \cup {[op |-> "get", path |-> 0, value |-> XTerm]}

NoLocal == [items |-> <<>>, snap |-> <<>>, key |-> 0]

CallDone == [op |-> "returned", k |-> 0]

\* The threads holding write_lock of the pool's map.
PoolLocked == {u \in Writers : ipc[u] \in {"snapshot", "write", "install", "unlock"}}

\* The threads holding the write guard of the pool's root.
PoolWriter == {u \in Writers : ipc[u] = "install"}

LocksFrame ==
    UNCHANGED <<mapVars, indexerVars, liveVars, envVars, heap, root, rwReaders, retained,
                seen, log, iarg, handed, lastHit, tokens>>

\* A thread enters insert, purge or get.  purge starts with intern, insert
\* with write_lock.lock() of upsert, get with snapshot().
St_Call(t, c) ==
    /\ pc[t] = "idle"
    /\ call[t] = NoCall
    /\ nWrites' = nWrites + 1
    /\ call' = [call EXCEPT ![t] = c]
    /\ local' = [local EXCEPT ![t] = NoLocal]
    /\ pc' = [pc EXCEPT ![t] = CASE c.op = "insert" -> "lock"
                                 [] c.op = "purge" -> "intern"
                                 [] c.op = "get" -> "snapshot"]
    /\ ipc' = [ipc EXCEPT ![t] = IF c.op = "purge" THEN "get" ELSE "idle"]
    /\ UNCHANGED <<rwWriter, write_lock, nReturned, values, nextId, interned, avl>>
    /\ LocksFrame

\* let _write_lock = self.write_lock.lock();
St_Lock(t) ==
    /\ pc[t] = "lock"
    /\ write_lock = 0
    /\ write_lock' = t
    /\ pc' = [pc EXCEPT ![t] = "snapshot"]
    /\ UNCHANGED <<rwWriter, call, local, nWrites, nReturned, values, nextId, ipc,
                   interned, avl>>
    /\ LocksFrame

\* snapshot(): self.root.read().unwrap().clone().  get returns; upsert goes
\* on to the closure, which calls intern; update has no node to rewrite in
\* an empty tree; iter() hands the items to the loop of purge.
St_Snapshot(t) ==
    /\ pc[t] = "snapshot"
    /\ rwWriter = 0
    /\ IF call[t].op = "get"
       THEN /\ pc' = [pc EXCEPT ![t] = "idle"]
            /\ call' = [call EXCEPT ![t] = CallDone]
            /\ local' = [local EXCEPT ![t] = 0]
            /\ nReturned' = nReturned + 1
            /\ UNCHANGED ipc
       ELSE IF call[t].op = "insert"
       THEN /\ pc' = [pc EXCEPT ![t] = "closure"]
            /\ ipc' = [ipc EXCEPT ![t] = "get"]
            /\ local' = [local EXCEPT ![t].snap = avl]
            /\ UNCHANGED <<call, nReturned>>
       ELSE IF write_lock = t
       THEN /\ pc' = [pc EXCEPT ![t] = IF avl = <<>> THEN "unlock" ELSE "write"]
            /\ local' = [local EXCEPT ![t].snap = avl]
            /\ UNCHANGED <<call, nReturned, ipc>>
       ELSE /\ pc' = [pc EXCEPT ![t] = "loop"]
            /\ local' = [local EXCEPT ![t].items = TIter(avl)]
            /\ UNCHANGED <<call, nReturned, ipc>>
    /\ UNCHANGED <<rwWriter, write_lock, nWrites, values, nextId, interned, avl>>
    /\ LocksFrame

\* for (k, v) in self.avl.iter() { if v.iter().any(..) { self.avl.update(k, ..) } }
\* and the return of purge after the last item
St_Loop(t) ==
    /\ pc[t] = "loop"
    /\ IF local[t].items = <<>>
       THEN /\ pc' = [pc EXCEPT ![t] = "idle"]
            /\ call' = [call EXCEPT ![t] = CallDone]
            /\ local' = [local EXCEPT ![t] = 0]
            /\ interned' = [interned EXCEPT ![t] = NoRef]
            /\ nReturned' = nReturned + 1
       ELSE /\ pc' = [pc EXCEPT ![t] = IF AnyOfPath(Head(local[t].items)[2], interned[t])
                                       THEN "lock" ELSE "loop"]
            /\ local' = [local EXCEPT ![t].items = Tail(local[t].items),
                                      ![t].key = Head(local[t].items)[1]]
            /\ UNCHANGED <<call, interned, nReturned>>
    /\ UNCHANGED <<rwWriter, write_lock, nWrites, values, nextId, ipc, avl>>
    /\ LocksFrame

\* self.root.write()
St_WriteLock(t) ==
    /\ pc[t] = "write"
    /\ rwWriter = 0
    /\ rwReaders = {}
    /\ rwWriter' = t
    /\ pc' = [pc EXCEPT ![t] = "install"]
    /\ UNCHANGED <<write_lock, call, local, nWrites, nReturned, values, nextId, ipc,
                   interned, avl>>
    /\ LocksFrame

\* *guard = new_root, the tree upsert or update made of the snapshot, and
\* the write guard dropped at the end of the statement
St_Install(t) ==
    /\ pc[t] = "install"
    /\ avl' = IF call[t].op = "insert"
              THEN TUpsert(local[t].snap, call[t].value,
                           [fn |-> "cons", entry |-> IndexEntry(interned[t], 0)])
              ELSE TUpdate(local[t].snap, local[t].key,
                           [fn |-> "without", id |-> interned[t].id])
    /\ rwWriter' = 0
    /\ pc' = [pc EXCEPT ![t] = "unlock"]
    /\ UNCHANGED <<write_lock, call, local, nWrites, nReturned, values, nextId, ipc,
                   interned>>
    /\ LocksFrame

\* St_Unlock that returns with write_lock still taken.
St_Unlock_keepsLock(t) ==
    /\ pc[t] = "unlock"
    /\ write_lock' = write_lock
    /\ IF call[t].op = "insert"
       THEN /\ pc' = [pc EXCEPT ![t] = "idle"]
            /\ call' = [call EXCEPT ![t] = CallDone]
            /\ local' = [local EXCEPT ![t] = 0]
            /\ interned' = [interned EXCEPT ![t] = NoRef]
            /\ nReturned' = nReturned + 1
       ELSE /\ pc' = [pc EXCEPT ![t] = "loop"]
            /\ UNCHANGED <<call, local, interned, nReturned>>
    /\ UNCHANGED <<rwWriter, nWrites, values, nextId, ipc, avl>>
    /\ LocksFrame

\* upsert or update returns and _write_lock goes out of scope: insert
\* returns, purge goes on with its loop
St_Unlock(t) ==
    /\ pc[t] = "unlock"
    /\ write_lock' = IF write_lock = t THEN 0 ELSE write_lock
    /\ IF call[t].op = "insert"
       THEN /\ pc' = [pc EXCEPT ![t] = "idle"]
            /\ call' = [call EXCEPT ![t] = CallDone]
            /\ local' = [local EXCEPT ![t] = 0]
            /\ interned' = [interned EXCEPT ![t] = NoRef]
            /\ nReturned' = nReturned + 1
       ELSE /\ pc' = [pc EXCEPT ![t] = "loop"]
            /\ UNCHANGED <<call, local, interned, nReturned>>
    /\ UNCHANGED <<rwWriter, nWrites, values, nextId, ipc, avl>>
    /\ LocksFrame

\* Where the caller of intern goes on: the closure of upsert has its entry,
\* purge calls iter().
AfterIntern(t) == IF call[t].op = "insert" THEN "write" ELSE "snapshot"

\* intern: self.values.get(value), a snapshot() of the pool's map.
\* Some(reference) returns the Arc found, None makes a new Arc and calls
\* insert.
Pool_Get(t) ==
    /\ ipc[t] = "get"
    /\ PoolWriter = {}
    /\ IF IsSome(intern_get(values, call[t].path))
       THEN /\ interned' = [interned EXCEPT ![t] = intern_get(values, call[t].path)[1]]
            /\ ipc' = [ipc EXCEPT ![t] = "idle"]
            /\ pc' = [pc EXCEPT ![t] = AfterIntern(t)]
            /\ UNCHANGED nextId
       ELSE /\ interned' = [interned EXCEPT ![t] = InternRef(nextId, call[t].path)]
            /\ nextId' = nextId + 1
            /\ ipc' = [ipc EXCEPT ![t] = "lock"]
            /\ UNCHANGED pc
    /\ UNCHANGED <<rwWriter, write_lock, call, local, nWrites, nReturned, values, avl>>
    /\ LocksFrame

\* self.values.insert(..): let _write_lock = self.write_lock.lock();
Pool_Lock(t) ==
    /\ ipc[t] = "lock"
    /\ PoolLocked = {}
    /\ ipc' = [ipc EXCEPT ![t] = "snapshot"]
    /\ UNCHANGED <<rwWriter, write_lock, pc, call, local, nWrites, nReturned,
                   values, nextId, interned, avl>>
    /\ LocksFrame

\* insert's snapshot().  No other thread changes values while this one
\* holds write_lock, so the tree insert installs is made of values as they
\* are then.
Pool_Snapshot(t) ==
    /\ ipc[t] = "snapshot"
    /\ PoolWriter = {}
    /\ ipc' = [ipc EXCEPT ![t] = "write"]
    /\ UNCHANGED <<rwWriter, write_lock, pc, call, local, nWrites, nReturned,
                   values, nextId, interned, avl>>
    /\ LocksFrame

\* self.root.write()
Pool_WriteLock(t) ==
    /\ ipc[t] = "write"
    /\ PoolWriter = {}
    /\ ipc' = [ipc EXCEPT ![t] = "install"]
    /\ UNCHANGED <<rwWriter, write_lock, pc, call, local, nWrites, nReturned,
                   values, nextId, interned, avl>>
    /\ LocksFrame

\* *guard = Some(new_root) and the write guard dropped
Pool_Install(t) ==
    /\ ipc[t] = "install"
    /\ values' = TInsert(values, call[t].path, interned[t])
    /\ ipc' = [ipc EXCEPT ![t] = "unlock"]
    /\ UNCHANGED <<rwWriter, write_lock, pc, call, local, nWrites, nReturned,
                   nextId, interned, avl>>
    /\ LocksFrame

\* insert returns, _write_lock goes out of scope, intern returns
Pool_Unlock(t) ==
    /\ ipc[t] = "unlock"
    /\ ipc' = [ipc EXCEPT ![t] = "idle"]
    /\ pc' = [pc EXCEPT ![t] = AfterIntern(t)]
    /\ UNCHANGED <<rwWriter, write_lock, call, local, nWrites, nReturned,
                   values, nextId, interned, avl>>
    /\ LocksFrame

NextLocks ==
    \/ \E t \in Writers, c \in StoreCalls : St_Call(t, c)
    \/ \E t \in Writers : St_Lock(t)
    \/ \E t \in Writers : St_Snapshot(t)
    \/ \E t \in Writers : St_Loop(t)
    \/ \E t \in Writers : St_WriteLock(t)
    \/ \E t \in Writers : St_Install(t)
    \/ \E t \in Writers : St_Unlock(t)
    \/ \E t \in Writers : Pool_Get(t)
    \/ \E t \in Writers : Pool_Lock(t)
    \/ \E t \in Writers : Pool_Snapshot(t)
    \/ \E t \in Writers : Pool_WriteLock(t)
    \/ \E t \in Writers : Pool_Install(t)
    \/ \E t \in Writers : Pool_Unlock(t)

\* The steps of a thread that take a lock, and the other steps of a call.
LockStep ==
    \E t \in Writers : St_Lock(t) \/ St_WriteLock(t) \/ Pool_Lock(t) \/ Pool_WriteLock(t)

DataStep ==
    \E t \in Writers :
        \/ St_Snapshot(t) \/ St_Loop(t) \/ St_Install(t) \/ St_Unlock(t)
        \/ Pool_Get(t) \/ Pool_Snapshot(t) \/ Pool_Install(t) \/ Pool_Unlock(t)

\* A thread can take one of the other steps: ENABLED <<DataStep>>_vars.
DataReady ==
    \E t \in Writers :
        \/ pc[t] \in {"loop", "install", "unlock"}
        \/ pc[t] = "snapshot" /\ rwWriter = 0
        \/ ipc[t] \in {"install", "unlock"}
        \/ ipc[t] \in {"get", "snapshot"} /\ PoolWriter = {}

\* Weak fairness of the other steps, WF_vars(DataStep), written out.
DataFair == []<>(~DataReady) \/ []<><<DataStep>>_vars

Init ==
    /\ InitMap
    /\ InitCell
    /\ InitIntern
    /\ InitStore
    /\ InitLive
    /\ token_normalisers = <<>>

\* An Indexer built with any of the chains.
\* The store of the Indexer handed to LiveIndexer::start is the value s.
StoreIs(s) ==
    /\ avl = s.avl
    /\ values = s.values
    /\ nextId = s.nextId

InitWithChain ==
    InitMap /\ InitCell /\ InitIntern /\ InitStore /\ InitLive /\ InitIndexer

\* LiveIndexer::start(indexer) with a new Indexer that lower-cases its tokens
InitFresh ==
    /\ InitMap /\ InitCell /\ InitIntern /\ InitStore /\ InitLive
    /\ token_normalisers = <<LowerCase>>

\* LiveIndexer::start(indexer) with an Indexer that lower-cases its tokens
\* and is either new or has indexed the first file.
InitRunning ==
    /\ InitMap /\ InitCell /\ InitLive
    /\ token_normalisers = <<LowerCase>>
    /\ \E indexed \in BOOLEAN :
           /\ StoreIs(IF indexed
                      THEN Indexer_index_file(Store(<<>>, <<>>, 1), <<LowerCase>>, 1, Disk(1))
                      ELSE Store(<<>>, <<>>, 1))
           /\ tokens = IF indexed THEN Accepted(<<LowerCase>>, 1, Disk(1).words) ELSE {}
    /\ ipc = [t \in Interners |-> "idle"]
    /\ iarg = [t \in Interners |-> 0]
    /\ interned = [t \in Interners |-> NoRef]
    /\ handed = {}
    /\ lastHit = NoRef

\* add_dir over the files of a walk, run to its end.
RECURSIVE IndexAll(_, _, _)
IndexAll(s, norms, paths) ==
    IF paths = <<>> THEN s
    ELSE IndexAll(Indexer_index_file(s, norms, Head(paths), Disk(Head(paths))),
                  norms, Tail(paths))

\* A LiveIndexer over a Dir in which Bad is missing, a file that cannot be
\* opened, or a subdirectory that cannot be listed; the Indexer is new or has
\* indexed the files of Dir.
InitWalk ==
    /\ InitMap /\ InitCell
    /\ \E kind \in {"none", "locked", "unreadable"} :
           InitLiveOn([StartDisk EXCEPT ![Bad] = Entry(kind, <<>>)], {})
    /\ token_normalisers = <<LowerCase>>
    /\ \E indexed \in BOOLEAN :
           /\ StoreIs(IF indexed
                      THEN IndexAll(Store(<<>>, <<>>, 1), <<LowerCase>>, WalkDir(Dir))
                      ELSE Store(<<>>, <<>>, 1))
           /\ tokens = IF indexed
                       THEN UNION {Accepted(<<LowerCase>>, p, OldWords) : p \in LiveFiles}
                       ELSE {}
    /\ ipc = [t \in Interners |-> "idle"]
    /\ iarg = [t \in Interners |-> 0]
    /\ interned = [t \in Interners |-> NoRef]
    /\ handed = {}
    /\ lastHit = NoRef

\* The chains the service is started with: lower-casing, with or without
\* the stop words after it.
LiveChains == {<<LowerCase>>, <<LowerCase, StopWords({MaxWord})>>}

\* Dir with a second file that holds the same words.
TwoFiles == [StartDisk EXCEPT ![Other] = Entry("file", OldWords)]

\* LiveIndexer::start with a new Indexer over a Dir of two files
InitReader ==
    /\ InitMap /\ InitCell /\ InitIntern /\ InitStore
    /\ InitLiveOn(TwoFiles, {})
    /\ token_normalisers \in LiveChains

\* A LiveIndexer after watch(Dir) has returned and the worker has processed
\* AddDir(Dir); the counters run from this state on.
InitWatched ==
    /\ InitMap /\ InitCell /\ InitLiveOn(StartDisk, {Dir})
    /\ token_normalisers \in LiveChains
    /\ StoreIs(IndexAll(Store(<<>>, <<>>, 1), token_normalisers, WalkDir(Dir)))
    /\ tokens = UNION {Accepted(token_normalisers, p, OldWords) : p \in LiveFiles}
    /\ ipc = [t \in Interners |-> "idle"]
    /\ iarg = [t \in Interners |-> 0]
    /\ interned = [t \in Interners |-> NoRef]
    /\ handed = {}
    /\ lastHit = NoRef

SpecMap == Init /\ [][NextMap]_vars

\* Any sequence of operations, all of them writing the value 1
SpecShape == Init /\ [][NextShape]_vars

\* One operation on any map whose nodes are balanced
InitOnce ==
    /\ InitBalanced /\ InitCell /\ InitIntern /\ InitStore /\ InitLive
    /\ token_normalisers = <<LowerCase>>

SpecOnce == InitOnce /\ [][NextOnce]_vars

SpecCell == Init /\ [][NextCell]_vars

SpecInternSeq == Init /\ [][NextInternSeq]_vars

SpecIntern == Init /\ [][NextIntern]_vars

SpecStore == Init /\ [][NextStore]_vars

SpecIndexer == InitWithChain /\ [][NextIndexer]_vars

SpecLive == InitFresh /\ [][NextLive]_vars

SpecLib == InitRunning /\ [][NextLib]_vars

SpecChange == InitWatched /\ [][NextChange]_vars

SpecReader == InitReader /\ [][NextReader]_vars

SpecWalk == InitWalk /\ [][NextWalk]_vars

SpecMain == InitFresh /\ [][NextMain]_vars

SpecUnwatch == InitWatched /\ [][NextUnwatch]_vars

SpecThreads == InitFresh /\ [][NextThreads]_vars

\* The indexing worker can take a step: ENABLED <<WorkerStep>>_vars.
WorkerReady ==
    /\ alive.worker
    /\ \/ current = None /\ indexing_queue # <<>>
       \/ todo["worker"] # <<>>
       \/ prims["worker"] # <<>>
       \/ current = None /\ disconnected(indexing_queue, queue_senders)

\* Weak fairness of the indexing worker, WF_vars(WorkerStep), written out.
WorkerFair == []<>(~WorkerReady) \/ []<><<WorkerStep>>_vars

\* The two worker threads are scheduled again and again: a recv that can
\* return does return, and a thread that is not blocked goes on.
SpecShutdown ==
    /\ InitFresh
    /\ [][NextShutdown]_vars
    /\ WF_vars(WatcherStep)
    /\ WorkerFair

\* watch is called while both worker threads are scheduled again and again.
SpecWatch ==
    /\ InitWalk
    /\ [][NextWatch]_vars
    /\ WF_vars(WatcherStep)
    /\ WorkerFair

\* Calls of the Posting Store while threads are scheduled: as long as some
\* thread can take its next step, one of them does.  This is the least that
\* scheduling every thread again and again gives.
SpecLocks ==
    /\ Init
    /\ [][NextLocks]_vars
    /\ WF_vars(LockStep)
    /\ DataFair

\* C1: after any sequence of insert and purge on an empty store, the paths
\* query returns for a term are exactly the paths that have a token with
\* that term inserted after the last purge of the path.
C1_QueryMatchesTokens ==
    \A term \in Terms :
        query(avl, term) = {tok.path : tok \in {x \in tokens : x.term = term}}

\* A path has been purged (it is in the pool and no entry names it), the
\* purge has left a term with an empty list, and another term still lists
\* a path.
C1_Witness ==
    /\ \E p \in Files :
          /\ IsSome(intern_get(values, p))
          /\ \A tok \in tokens : tok.path # p
    /\ \E t \in Terms :
          /\ IsSome(AvlStorage_get(avl, t))
          /\ query(avl, t) = {}
    /\ \E t \in Terms : query(avl, t) # {}

\* C2: after any sequence of insert/upsert and remove every node of the
\* tree has subtree heights that differ by at most 1.
C2_Balanced == Balanced(map)

ModelKeys == {k \in Keys : IsSome(model[k])}

\* C3: get(k) returns the value of the most recent insert of every key
\* inserted and not removed since, and none for every other key.
C3_GetLatest == \A k \in Keys : TGet(map, k) = model[k]

\* A key was removed from a map of three keys, and another key has been
\* overwritten with a second value.
C3_Witness ==
    /\ lastOp.op = "remove"
    /\ IsSome(lastOp.old)
    /\ TGet(map, lastOp.k) = None
    /\ Cardinality(ModelKeys) >= 2
    /\ \E k \in Keys : TGet(map, k) = Some(2)

\* C4: iter() yields every key of the map exactly once, in strictly
\* ascending order, with its value, and then ends.
C4_IterSorted ==
    LET ld == Load(map)
        items == Avl_iter(ld.H, ld.a)
        done == Iter_after(ld.H, Iter_new(ld.H, ld.a), Len(items))
    IN /\ Len(items) = Cardinality(ModelKeys)
       /\ [i \in 1..Len(items) |-> items[i][1]] = SortedSeq(ModelKeys)
       /\ \A i \in 1..Len(items) : Some(items[i][2]) = model[items[i][1]]
       /\ Iter_next(ld.H, done).item = None
       /\ Iter_next(ld.H, done).stack = done

\* A map whose root has a right child that has a left child, reached by a
\* remove: the iterator has to dive into the right subtree.
C4_Witness ==
    /\ Len(map) > 0
    /\ Len(map[1].r) > 0
    /\ Len(map[1].r[1].l) > 0
    /\ Len(map[1].l) > 0
    /\ Len(TIter(map)) = 4

\* C5: a snapshot never changes: whatever is written to the cell after it
\* was taken, get and iter on it return what they returned at that time.
C5_SnapshotImmutable ==
    \A r \in Readers :
        IsSome(retained[r]) =>
            /\ Avl_iter(heap, retained[r][1]) = seen[r].items
            /\ Contents(heap, retained[r][1]) = seen[r].gets

\* A reader holds a non-empty snapshot and writes installed since then have
\* changed what the cell holds.
C5_Witness ==
    \E r \in Readers :
        /\ IsSome(retained[r])
        /\ seen[r].items # <<>>
        /\ Len(log) > seen[r].log
        /\ Contents(heap, root) # seen[r].gets

\* C6: a snapshot shows exactly the writes installed before it was taken,
\* in their order: every write that had returned by then, and none that
\* started later.
C6_SnapshotReflectsWrites ==
    \A r \in Readers :
        IsSome(retained[r]) =>
            /\ seen[r].returned <= seen[r].log
            /\ seen[r].log <= Len(log)
            /\ Contents(heap, retained[r][1])
                   = ApplyLog(EmptyContents, SubSeq(log, 1, seen[r].log))

\* A snapshot taken after a write had returned, with a further write
\* installed after it was taken.
C6_Witness ==
    \E r \in Readers :
        /\ IsSome(retained[r])
        /\ seen[r].returned >= 1
        /\ Len(log) > seen[r].log
        /\ Contents(heap, root) # Contents(heap, retained[r][1])

HoldsMutex(w) == pc[w] \in {"snapshot", "compute", "swap", "install", "unlock"}

\* C7: writers are serialized: at most one writer is between taking the
\* mutex and returning, and the cell holds the result of applying the
\* installed calls one after the other (no update is lost).
C7_WritersSerialized ==
    /\ Cardinality({w \in Writers : HoldsMutex(w)}) <= 1
    /\ Contents(heap, root) = ApplyLog(EmptyContents, log)
    /\ nReturned <= Len(log)
    /\ Len(log) <= nWrites
    /\ (\A w \in Writers : pc[w] = "idle") => Len(log) = nWrites

\* Two upserts of different keys have been installed and both show; the
\* writer of the second has not yet released the mutex and another writer
\* is idle.
C7_Witness ==
    /\ Len(log) >= 2
    /\ log[1].op = "upsert"
    /\ log[2].op = "upsert"
    /\ log[1].k # log[2].k
    /\ \A k \in {log[1].k, log[2].k} : IsSome(Avl_get(heap, root, k))
    /\ \E w \in Writers :
          /\ pc[w] = "unlock"
          /\ \E v \in Writers \ {w} : pc[v] = "idle"

\* C8: the write side of root is held only for the swap, so snapshot() can
\* be taken while a writer computes or waits to swap and returns the
\* pre-write map; a reader that merely holds a snapshot does not keep a
\* writer from swapping.
C8_NoBlocking ==
    /\ rwWriter # 0 => pc[rwWriter] = "install"
    /\ \A t \in rwReaders : pc[t] = "clone"
    /\ \A w \in Writers, r \in Readers :
          (pc[w] \in {"compute", "swap"} /\ pc[r] = "idle") => ENABLED R_ReadLock(r)
    /\ \A w \in Writers, r \in Readers :
          (pc[w] \in {"compute", "swap"} /\ pc[r] = "clone") =>
              /\ ENABLED R_Clone(r)
              /\ Contents(heap, root) = ApplyLog(EmptyContents, log)
              /\ Len(log) = nWrites - 1
    /\ \A w \in Writers :
          (pc[w] = "swap" /\ \A r \in Readers : pc[r] = "idle") => ENABLED W_WriteLock(w)

\* A reader is inside snapshot(), holding the read guard, while a writer
\* holds the mutex with its new root computed and not yet installed.
C8_Witness ==
    \E r \in Readers, w \in Writers :
        /\ pc[w] = "swap"
        /\ pc[r] = "clone"
        /\ r \in rwReaders
        /\ write_lock = w
        /\ Contents(heap, local[w]) # Contents(heap, root)

\* C9: for sequential intern calls on one pool, two handles compare equal
\* (same allocation) if and only if their contents are equal.
C9_InternIdentity ==
    \A a \in handed : \A b \in handed :
        InternRef_eq(a, b) <=> (a.content = b.content)

\* Every value has been interned, and a later call has found the first of
\* them in the pool and handed it out again.
C9_Witness ==
    /\ {h.content : h \in handed} = Paths
    /\ ipc[1] = "idle"
    /\ lastHit \in handed
    /\ lastHit.id = 1

\* C10: for every interleaving of intern calls of several threads on one
\* pool, two handles of equal content are identity-equal.
C10_ConcurrentIntern ==
    \A a \in handed : \A b \in handed :
        (a.content = b.content) => InternRef_eq(a, b)

\* C11: empty posting lists are never stored: a term is a key of the term
\* map if and only if its posting list is non-empty.
C11_NoEmptyLists ==
    \A t \in Terms :
        IsSome(AvlStorage_get(avl, t)) <=>
            (IsSome(AvlStorage_get(avl, t)) /\ Len(AvlStorage_get(avl, t)[1]) > 0)

\* C14: purge is idempotent: in every store and for every path, the term
\* map after purge(p); purge(p) is the term map after one purge(p), so get
\* and query return the same, and purge of a path without postings leaves
\* the term map as it is.
C14_PurgeIdempotent ==
    \A p \in Files :
        LET s0 == Store(avl, values, nextId)
            s1 == AvlStorage_purge(s0, p)
            s2 == AvlStorage_purge(s1, p)
        IN /\ s2.avl = s1.avl
           /\ (\A tok \in tokens : tok.path # p) => s1.avl = s0.avl

\* A path has been purged (it is in the pool and has no postings), the
\* purge has emptied the list of a term, another path has never been
\* interned, and purging the purged path again leaves every list as it is.
C14_Witness ==
    /\ \E p \in Files :
          /\ IsSome(intern_get(values, p))
          /\ \A tok \in tokens : tok.path # p
          /\ AvlStorage_purge(Store(avl, values, nextId), p).avl = avl
    /\ \E t \in Terms : AvlStorage_get(avl, t) = Some(<<>>)
    /\ \E q \in Files : ~IsSome(intern_get(values, q))

\* C12: offsets are unique per (term, path): after any sequence of
\* index_file and clear_from_index calls no term's posting list holds the
\* same (path, offset) pair more than once.
C12_UniqueOffsets ==
    \A t \in RawWords :
        LET entries == AvlStorage_get(avl, t)
        IN IsSome(entries) =>
               \A i, j \in 1..Len(entries[1]) :
                   (/\ entries[1][i].path.content = entries[1][j].path.content
                    /\ entries[1][i].offset = entries[1][j].offset) => i = j

\* C13: round trip: from every index state, index_file(f) followed by
\* clear_from_index(f) with the same path argument leaves query(t) empty for
\* every term t that occurred only in f.
C13_RoundTrip ==
    \A path \in PathArgs, file \in FileStates :
        LET s0 == Store(avl, values, nextId)
            s1 == Indexer_index_file(s0, token_normalisers, path, file)
            s2 == Indexer_clear_from_index(s1, path)
        IN \A t \in RawWords :
               Indexer_query(token_normalisers, s0.avl, t) \subseteq {canonicalize(path)}
                   => Indexer_query(token_normalisers, s2.avl, t) = {}

\* C16: query(term) looks up the value the configured normalisers, applied
\* in order to the token (term, offset 0), produce; when one of them rejects
\* the token the key is the raw term, not a partially normalised value. The
\* result is the set of paths indexed under that key.
C16_QueryKey ==
    \A term \in RawWords :
        LET n == Len(token_normalisers)
            rejected == \E k \in 1..n : ~IsSome(After(token_normalisers, Token(term, 0), k))
            key == IF rejected THEN term
                   ELSE After(token_normalisers, Token(term, 0), n)[1].value
        IN /\ LookupWord(token_normalisers, term) = key
           /\ Indexer_query(token_normalisers, avl, term)
                  = {tok.path : tok \in {x \in tokens : x.term = key}}

\* A chain that lower-cases and then rejects: the term is changed by the
\* first normaliser and rejected by the second, and the key is the raw term;
\* another term is accepted and found.
C16_Witness ==
    /\ Len(token_normalisers) = 2
    /\ \E term \in RawWords :
           /\ After(token_normalisers, Token(term, 0), 1) # Some(Token(term, 0))
           /\ ~IsSome(After(token_normalisers, Token(term, 0), 2))
           /\ LookupWord(token_normalisers, term) = term
    /\ \E term \in RawWords :
           /\ IsSome(Indexer_normalise(token_normalisers, Token(term, 0)))
           /\ Indexer_query(token_normalisers, avl, term) # {}

\* The (path, term, offset) triples the posting lists hold.
StoredTriples ==
    UNION {LET entries == AvlStorage_get(avl, t)
           IN IF IsSome(entries)
              THEN {[path |-> entries[1][i].path.content, term |-> t,
                     offset |-> entries[1][i].offset] : i \in 1..Len(entries[1])}
              ELSE {} : t \in RawWords}

\* C17: index_file passes every token through the normalisers in the
\* configured order, each receiving the previous one's output; the first
\* that returns none drops the token, and a token is inserted exactly when
\* no normaliser rejects it, under the value the last normaliser produced.
C17_NormalisedInserts == StoredTriples = tokens

\* The index holds a word that only the chain in this order lets through
\* (accepted as written by the stop-word filter, then lower-cased to the
\* stop word), and a file whose word is rejected leaves the index as it is.
C17_Witness ==
    /\ token_normalisers = <<StopWords({MaxWord}), LowerCase>>
    /\ query(avl, MaxWord) # {}
    /\ \E file \in FileStates :
           /\ file.kind = "file" /\ Len(file.words) > 0
           /\ Indexer_index_file(Store(avl, values, nextId), token_normalisers, 1, file).avl = avl

\* C18: the watching worker translates each event into exactly the listed
\* actions, queued in the listed order: Create(p) -> Add(p); Write(p) ->
\* Remove(p), Add(p); Remove(p) -> Remove(p); Rename(old, new) ->
\* Remove(old), Add(new); Error and the ignored kinds queue nothing. Every
\* send of the worker appends the next listed action to the queue.
C18_EventTable ==
    [][/\ Len(events') < Len(events) =>
              LET e == Head(events)
              IN /\ wpending = <<>>
                 /\ e.kind = "Create" => wpending' = <<[op |-> "Add", path |-> e.path]>>
                 /\ e.kind = "Write" =>
                        wpending' = <<[op |-> "Remove", path |-> e.path],
                                      [op |-> "Add", path |-> e.path]>>
                 /\ e.kind = "Remove" => wpending' = <<[op |-> "Remove", path |-> e.path]>>
                 /\ e.kind = "Rename" =>
                        wpending' = <<[op |-> "Remove", path |-> e.path],
                                      [op |-> "Add", path |-> e.to]>>
                 /\ e.kind \in {"Error", "Rescan", "Chmod", "NoticeWrite", "NoticeRemove"}
                        => wpending' = <<>>
                 /\ indexing_queue' = indexing_queue
       /\ (wpending # <<>> /\ wpending' # wpending) =>
              /\ wpending' = Tail(wpending)
              /\ Len(indexing_queue') = Len(indexing_queue) + 1
              /\ indexing_queue'[Len(indexing_queue')].action = Head(wpending)
              /\ SubSeq(indexing_queue', 1, Len(indexing_queue)) = indexing_queue
       /\ (wpending' # wpending) => (Len(events') < Len(events) \/ wpending # <<>>)
      ]_vars

\* The worker is half way through a written or renamed file: its Remove is
\* the newest action in the queue and its Add is the one send left.
C18_Witness ==
    \E p \in LiveFiles :
        /\ wpending = <<IndexingAction("Add", p)>>
        /\ indexing_queue # <<>>
        /\ indexing_queue[Len(indexing_queue)].action = IndexingAction("Remove", p)

\* C19: the indexing worker processes the actions strictly in the order they
\* were queued, one at a time: the action it executes is the oldest one not
\* yet finished, the queue holds the ones after it in order, and none is
\* skipped or taken twice.
C19_EnqueueOrder ==
    LET started == processed + (IF IsSome(current) THEN 1 ELSE 0)
    IN /\ IsSome(current) => current[1].seq = processed + 1
       /\ \A i \in 1..Len(indexing_queue) : indexing_queue[i].seq = started + i
       /\ started + Len(indexing_queue) = sent
       /\ ~IsSome(current) => (todo["worker"] = <<>> /\ prims["worker"] = <<>>)

\* One action has finished, the next is being executed and a third waits.
C19_Witness ==
    /\ processed >= 1
    /\ IsSome(current)
    /\ prims["worker"] # <<>>
    /\ indexing_queue # <<>>

\* C15: query never fails: in every reachable state, also while another
\* thread is inside an index_file or clear_from_index call, query(term)
\* returns a set of paths, and the set is empty when the term is unknown or
\* its posting list is empty.
C15_QueryTotal ==
    /\ \A term \in RawWords :
           LET entries == AvlStorage_get(avl, LookupWord(token_normalisers, term))
               result == Indexer_query(token_normalisers, avl, term)
           IN /\ result \subseteq LiveFiles
              /\ (~IsSome(entries) \/ entries = Some(<<>>)) => result = {}
    /\ IsSome(qres) =>
           /\ qres[1].result \subseteq LiveFiles
           /\ (~IsSome(qres[1].entries) \/ qres[1].entries = Some(<<>>))
                  => qres[1].result = {}

\* A query ran while another thread was half way through a call and found
\* the posting list of its term empty; the index also holds a term that a
\* query finds.
C15_Witness ==
    /\ IsSome(qres)
    /\ qres[1].busy
    /\ qres[1].entries = Some(<<>>)
    /\ qres[1].result = {}
    /\ Mutating # {}
    /\ \E term \in RawWords : Indexer_query(token_normalisers, avl, term) # {}

\* C20: the index is changed only by the indexing worker: neither the
\* watcher thread nor a thread calling watch, unwatch or query is ever
\* inside index_file or clear_from_index, so at most one thread at a time
\* is changing the Posting Store.
C20_SingleWriter ==
    /\ Mutating \subseteq {"worker"}
    /\ Cardinality(Mutating) <= 1

\* The terms index_file stores for a file with these words.
ContentTerms(norms, words) == {tok.term : tok \in Accepted(norms, 0, words)}

\* The terms Indexer::query looks up unchanged.
NormalTerms(norms) == {t \in RawWords : LookupWord(norms, t) = t}

\* Every event has been turned into actions and the worker has processed
\* every action.
Drained ==
    /\ events = <<>>
    /\ wpending = <<>>
    /\ indexing_queue = <<>>
    /\ current = None

C23_ReaderMonotone ==
    \A i \in 1..Len(qlog) :
        /\ qlog[i] \in hist
        /\ i > 1 => qlog[i - 1] \subseteq qlog[i]
        /\ qlog[i] \subseteq {tok.path : tok \in tokens}

\* The reader got its entries, the writer went on to index the second file,
\* and the query returned the set of before; an earlier query had returned
\* less.
C23_Witness ==
    /\ Len(qlog) = 2
    /\ qlog[1] = {}
    /\ qlog[2] = {1}
    /\ qlog[2] # query(avl, XTerm)
    /\ Cardinality(hist) = 3

\* Every regular file of Dir is returned for every term of its words.
AllIndexed ==
    \A p \in DiskPaths :
        Disk(p).kind = "file" =>
            \A t \in ContentTerms(token_normalisers, Disk(p).words) :
                p \in Indexer_query(token_normalisers, avl, t)

\* No query returns a path under Dir.
NoneIndexed == \A t \in RawWords : Indexer_query(token_normalisers, avl, t) = {}

\* The last call that returned is fn(Dir) with Ok.
LastReturned(fn) ==
    /\ returns # <<>>
    /\ returns[Len(returns)] = Returned(fn, Dir, "Ok")

\* C24: when index_file fails for a file while the worker processes
\* AddDir(root), every other regular file the walk yields is still indexed.
C24_FileErrorSkipped ==
    (Drained /\ LastReturned("watch") /\ Disk(Bad).kind = "locked")
        => AllIndexed

\* AddDir has been processed over a Dir whose first entry cannot be opened
\* and whose index was empty: the file after it is indexed and the worker
\* has logged no error.
C24_Witness ==
    /\ Drained
    /\ LastReturned("watch")
    /\ Disk(Bad).kind = "locked"
    /\ nevents = 0
    /\ processed = 1
    /\ warned = {}
    /\ tokens = UNION {Accepted(token_normalisers, p, OldWords) : p \in LiveFiles}
    /\ CountEntries(TIter(avl)) = Cardinality(tokens)
    /\ AllIndexed

\* C25: an error the walk yields for one entry does not keep the remaining
\* entries from being indexed (AddDir) or purged (RemoveDir): once the worker
\* has processed the action, with no event reported, every file of Dir is
\* indexed, or none is.
C25_WalkErrorSkipped ==
    (Drained /\ nevents = 0) =>
        /\ LastReturned("watch") => AllIndexed
        /\ LastReturned("unwatch") => NoneIndexed

\* C26: when an action returns an error the worker logs it in the step in
\* which the action ends, that step changes no posting, the worker is back
\* at recv, and no action queued behind it is lost: when the queue is empty
\* and no action is in execution, every action sent has been processed.
C26_FailureContained ==
    [][/\ warned' # warned =>
             /\ current' = None
             /\ processed' = processed + 1
             /\ warned' = warned \cup {processed'}
             /\ avl' = avl
       /\ (indexing_queue' = <<>> /\ current' = None) => processed' = sent']_vars

\* The first action returned an error, which the worker logged, and the
\* worker has processed a later action that indexed a file.
C26_Witness ==
    /\ 1 \in warned
    /\ processed >= 2
    /\ 2 \notin warned
    /\ StoredTriples = tokens
    /\ \E t \in RawWords : Indexer_query(token_normalisers, avl, t) # {}

\* C27: once the LiveIndexer is dropped (its queue sender and its watcher,
\* and with the watching worker its clone of the sender), the loops of both
\* workers end, and the indexing worker ends only with every action sent
\* processed and none left in the queue.
C27_ShutdownDrains ==
    /\ (~alive.handle) ~> (~alive.watcher /\ ~alive.worker)
    /\ [](~alive.worker =>
              /\ ~alive.watcher
              /\ indexing_queue = <<>>
              /\ current = None
              /\ processed = sent)

\* Both workers have ended after the worker processed AddDir and the two
\* actions of a written file.
C27_Witness ==
    /\ ~alive.watcher
    /\ ~alive.worker
    /\ sent = 3
    /\ processed = 3

\* C28: an Err of the watcher is returned by watch and unwatch to their
\* caller and does not end the process: after a /watch or /unwatch that
\* failed the loop of main goes on: it never ends with that error.
C28_ReplSurvives ==
    \A i \in 1..Len(returns) : returns[i].r = "Err" => repl # "error"

\* C29: once unwatch(root) has returned Ok and the events and the queue are
\* drained, no query returns a path under root, whatever events and file
\* changes came before.
C29_UnwatchClears ==
    (LastReturned("unwatch") /\ Drained) => NoneIndexed

\* C30: a watch(root) that returns Ok has registered root with the watcher
\* and has put AddDir(root) at the end of the indexing queue, and from then
\* on the workers reach a state with every event and action processed in
\* which every regular file of root is returned for every term of its words.
C30_WatchBuilds ==
    /\ [][(returns' # returns /\ returns'[Len(returns')] = Returned("watch", Dir, "Ok"))
            => /\ Dir \in watched'
               /\ indexing_queue # indexing_queue'
               /\ indexing_queue'[Len(indexing_queue')].action = IndexingAction("AddDir", Dir)]_vars
    /\ LastReturned("watch") ~> (Drained /\ AllIndexed)

\* No thread is inside a call of the Indexer and no event is left.
Quiet ==
    /\ events = <<>>
    /\ \A th \in Threads : todo[th] = <<>> /\ prims[th] = <<>>
    /\ \A t \in Interners : ipc[t] = "idle"

\* How often the list of a term holds the posting (path, offset).
Copies(tree, tok) ==
    LET entries == AvlStorage_get(tree, tok.term)
    IN IF IsSome(entries)
       THEN Cardinality({i \in 1..Len(entries[1]) :
                            /\ entries[1][i].path.content = tok.path
                            /\ entries[1][i].offset = tok.offset})
       ELSE 0

\* C31: once every call of index_file and clear_from_index issued by the
\* threads has returned, the index is what some sequential order of the calls
\* leaves: every token of a file is in it the same number of times, and a
\* clear_from_index(p) made then removes every posting of p.
C31_ThreadSafe ==
    Quiet =>
        \A p \in LiveFiles :
            /\ \A a, b \in Accepted(token_normalisers, p, Disk(p).words) :
                   Copies(avl, a) = Copies(avl, b)
            /\ \A t \in RawWords :
                   p \notin query(AvlStorage_purge(Store(avl, values, nextId), p).avl, t)

\* The rotation the direction of the descent selects: a node left with
\* balance +2 (-2) is rotated right (left) when the new key k went into the
\* left (right) subtree of its left (right) child, and gets the double
\* rotation when k went into the other subtree of that child.
rebalance_by_descent(H, self, k) ==
    LET b == balance(H, self)
    IN IF b > 1 /\ k < H[self.l].k THEN rotate_right(H, self)
       ELSE IF b < -1 /\ k > H[self.r].k THEN rotate_left(H, self)
       ELSE IF b > 1
            THEN LET c == RotatedChild(H, self.l, TRUE)
                 IN rotate_right(c.H, recompute_height(c.H, [self EXCEPT !.l = c.a]))
       ELSE IF b < -1
            THEN LET c == RotatedChild(H, self.r, FALSE)
                 IN rotate_left(c.H, recompute_height(c.H, [self EXCEPT !.r = c.a]))
       ELSE [H |-> H, n |-> self]

\* The insert of a new key k with that choice at every node of the path.
RECURSIVE upsert_by_descent(_, _, _, _)
upsert_by_descent(H, self, k, v) ==
    IF k < self.k
    THEN LET l == IF self.l # 0 THEN upsert_by_descent(H, H[self.l], k, v)
                  ELSE [H |-> H, n |-> leaf(k, v)]
             al == Alloc(l.H, l.n)
         IN rebalance_by_descent(al.H, recompute_height(al.H, [self EXCEPT !.l = al.a]), k)
    ELSE LET r == IF self.r # 0 THEN upsert_by_descent(H, H[self.r], k, v)
                  ELSE [H |-> H, n |-> leaf(k, v)]
             al == Alloc(r.H, r.n)
         IN rebalance_by_descent(al.H, recompute_height(al.H, [self EXCEPT !.r = al.a]), k)

InsertedByDescent(t, k, v) ==
    IF Len(t) = 0 THEN Tree(<<leaf(k, v)>>, 1)
    ELSE LET ld == Load(t)
             res == upsert_by_descent(ld.H, ld.H[ld.a], k, v)
             al == Alloc(res.H, res.n)
         IN Tree(al.H, al.a)

\* C32: the insert of a new key into a map whose nodes are all balanced
\* returns the tree that results when every node the insert leaves with
\* balance +2 or -2 gets the single rotation if the key went into the same
\* side subtree of the taller child, and the double rotation if it went into
\* the opposite side subtree.
C32_RotationChoice ==
    [][(lastOp'.op = "insert" /\ ~IsSome(lastOp'.old) /\ Balanced(map))
          => map' = InsertedByDescent(map, lastOp'.k, model'[lastOp'.k][1])]_vars

\* C33: remove(k) on a map whose nodes all have subtree heights that differ
\* by at most 1 returns a map whose nodes all do, whether k is absent, a
\* leaf, a node with one child or a node with two children.
C33_RemoveBalanced ==
    [][(lastOp'.op = "remove" /\ Balanced(map)) => Balanced(map')]_vars

\* Key 1 was removed from a map of four keys: whichever of the four shapes
\* the map had, the three keys left form the one balanced tree.
C33_Witness ==
    /\ lastOp.op = "remove"
    /\ lastOp.k = 1
    /\ IsSome(lastOp.old)
    /\ TreeKeys(map) = {2, 3, 4}
    /\ map[1].k = 3
    /\ TrueHeight(map) = 2

\* C34: update(k, f) and remove(k) with a key k the map does not hold return
\* a map that iterates over exactly the key-value pairs of the map they were
\* called on, and update does not call f.
C34_AbsentNoop ==
    [][(lastOp'.op \in {"update", "remove"} /\ lastOp'.k \notin TreeKeys(map))
          => /\ TIter(map') = TIter(map)
             /\ lastOp'.op = "update" => TUpdateCalls(map, lastOp'.k) = <<>>]_vars

\* update was called with key 2 on a map that holds 1, 3 and 4: the search
\* goes down to a node without the child to follow, and the map holds what
\* it held.
C34_Witness ==
    /\ lastOp.op = "update"
    /\ lastOp.k = 2
    /\ TreeKeys(map) = {1, 3, 4}
    /\ TGet(map, 2) = None
    /\ \A k \in {1, 3, 4} : TGet(map, k) = model[k]

\* C35: upsert(k, f) calls f once, with the value the map holds for k or
\* with none, the map returned holds f's result for k and for every other
\* key what the map held; insert(k, v) returns what upsert(k, |_| v) returns
\* and holds v for k whatever the map held.
C35_UpsertOnce ==
    [][/\ lastOp'.op = "upsert" =>
              /\ TUpsertCalls(map, lastOp'.k) = <<TGet(map, lastOp'.k)>>
              /\ TGet(map', lastOp'.k) =
                     Some(Apply([fn |-> "bump"], TGet(map, lastOp'.k)))
              /\ \A j \in Keys \ {lastOp'.k} : TGet(map', j) = TGet(map, j)
       /\ lastOp'.op = "insert" =>
              /\ map' = TUpsert(map, lastOp'.k, [fn |-> "const", v |-> model'[lastOp'.k][1]])
              /\ TGet(map', lastOp'.k) = model'[lastOp'.k]
              /\ \A j \in Keys \ {lastOp'.k} : TGet(map', j) = TGet(map, j)]_vars

\* upsert was called with a key that a map of three keys holds below its
\* root: the key has the value f made of the one it had.
C35_Witness ==
    /\ lastOp.op = "upsert"
    /\ IsSome(lastOp.old)
    /\ Cardinality(TreeKeys(map)) = 3
    /\ map[1].k # lastOp.k
    /\ TGet(map, lastOp.k) = Some(Apply([fn |-> "bump"], lastOp.old))
    /\ TGet(map, lastOp.k) # lastOp.old

\* The height every node stores is 1 plus the larger of the heights its
\* subtrees really have.
RECURSIVE HeightsTrue(_)
HeightsTrue(t) ==
    \/ Len(t) = 0
    \/ /\ t[1].h = 1 + MaxOf(TrueHeight(t[1].l), TrueHeight(t[1].r))
       /\ HeightsTrue(t[1].l)
       /\ HeightsTrue(t[1].r)

\* C36: after any sequence of insert, upsert, update and remove, the height
\* stored in every node of the map is 1 plus the maximum of the true heights
\* of its two subtrees, 0 for a missing one.
C36_HeightsTrue == HeightsTrue(map)

\* A remove of a key the map held has left three keys on two levels, and the
\* root stores the height 2.
C36_Witness ==
    /\ lastOp.op = "remove"
    /\ IsSome(lastOp.old)
    /\ Cardinality(TreeKeys(map)) = 3
    /\ TrueHeight(map) = 2
    /\ map[1].h = 2
    /\ map[1].k < lastOp.k

\* Every key of the left subtree is smaller and every key of the right
\* subtree is larger than the key of the node, at every node.
RECURSIVE SearchTree(_)
SearchTree(t) ==
    \/ Len(t) = 0
    \/ /\ \A j \in TreeKeys(t[1].l) : j < t[1].k
       /\ \A j \in TreeKeys(t[1].r) : j > t[1].k
       /\ SearchTree(t[1].l)
       /\ SearchTree(t[1].r)

RECURSIVE Size(_)
Size(t) == IF Len(t) = 0 THEN 0 ELSE 1 + Size(t[1].l) + Size(t[1].r)

\* C37: after any sequence of insert, upsert, update and remove, the map is
\* a binary search tree and no two of its nodes have the same key.
C37_SearchTree == SearchTree(map) /\ Size(map) = Cardinality(TreeKeys(map))

\* A map of four keys on three levels after an insert that rotated.
C37_Witness ==
    /\ lastOp.op = "insert"
    /\ ~IsSome(lastOp.old)
    /\ Size(map) = MaxKey
    /\ TrueHeight(map) = 3
    /\ map[1].k # 1 /\ map[1].k # MaxKey
    /\ SearchTree(map)

\* The (path, offset) pairs in the posting list of every term of the tree.
RECURSIVE Listed(_)
Listed(t) ==
    IF Len(t) = 0 THEN {}
    ELSE {<<t[1].k, t[1].v[i].path.content, t[1].v[i].offset>> : i \in 1..Len(t[1].v)}
             \cup Listed(t[1].l) \cup Listed(t[1].r)

\* A step of purge(p): the tokens inserted and not purged lose those of p.
\* An insert that repeats a posting is such a step for a path without
\* postings.
PurgeStep(p) == tokens' = {tok \in tokens : tok.path # p}

\* C38: purge(p) leaves the set of (q, offset) postings of every term as it
\* was for every path q other than p, and leaves no posting of p.
C38_PurgeFrame ==
    [][\A p \in Files :
          PurgeStep(p) => Listed(avl') = {e \in Listed(avl) : e[2] # p}]_vars

\* The list of a term mixes entries of two paths, and purge of one of them
\* leaves the postings of the other in a list of one entry.
C38_Witness ==
    \E p \in Files, term \in Terms :
        /\ \E e \in Listed(avl) : e[1] = term /\ e[2] = p
        /\ \E e \in Listed(avl) : e[1] = term /\ e[2] # p
        /\ LET purged == AvlStorage_purge(Store(avl, values, nextId), p).avl
           IN /\ Len(AvlStorage_get(purged, term)[1]) = 1
              /\ Listed(purged) = {e \in Listed(avl) : e[2] # p}

\* C39: with threads calling insert, purge and get of the Posting Store at
\* the same time and scheduled on, every call returns: from every state
\* with a call in progress a state is reached where no call is, so no thread
\* waits for ever for write_lock or root of the term map or of the pool's
\* map.
C39_CallsReturn ==
    (\E t \in Writers : pc[t] # "idle") ~> (\A t \in Writers : pc[t] = "idle")

\* An insert holds write_lock of the term map and waits in its closure for
\* write_lock of the pool's map, which a purge holds.
C39_Witness ==
    \E t \in Writers, u \in Writers :
        /\ write_lock = t
        /\ pc[t] = "closure"
        /\ ipc[t] = "lock"
        /\ call[u].op = "purge"
        /\ u \in PoolLocked

\* C40: the Remove and the Add the watching worker sends for one Write or
\* Rename event are next to each other in the indexing queue: no AddDir or
\* RemoveDir of a watch or unwatch call stands between the Remove of a path
\* and the Add that follows it.
C40_PairAdjacent ==
    \A i \in 1..(Len(indexing_queue) - 2) :
        ~ /\ indexing_queue[i].action.op = "Remove"
          /\ indexing_queue[i + 1].action.op \in {"AddDir", "RemoveDir"}
          /\ indexing_queue[i + 2].action.op = "Add"
          /\ indexing_queue[i + 2].seq = indexing_queue[i].seq + 2

====
